---- MODULE Spec2Model ----
(***************************************************************************)
(* The transcription engine of supernote_utils (core/transcriber.py), the  *)
(* provider adapters it calls (providers/*.py) and the text helpers of     *)
(* core/image_processor.py.                                                *)
(*                                                                         *)
(* A text is a sequence of tokens.  A token is one character class or one  *)
(* word: "\n", " ", the code fence (three backticks, written "[fence]"), the word "markdown", the handwriting  *)
(* of page p ("w1", "w2", ...) or a whole separator marker.  Pages are     *)
(* identified by their position 1..N in the image list.                    *)
(*                                                                         *)
(* The engine is called with plain_text = False throughout.                *)
(***************************************************************************)
EXTENDS Integers, Sequences, FiniteSets, TLC

\* Bounds of the model: the longest image list, the largest batch_size, and
\* the longest image list that is transcribed twice.
MaxPages == 5
MaxBatch == 3
MaxPagesTwice == 3

Providers == {"anthropic", "google", "ollama"}

\* The forms a backend answer takes for one page.
Shapes == {"plain", "padded", "fenced"}

NL == "\n"
SP == " "
\* The three backticks that open or close a fenced code block.
FENCE == "[fence]"
Whitespace == {NL, SP}

Min(a, b) == IF a < b THEN a ELSE b

----------------------------------------------------------------------------
\* Texts

\* The words the backend reads on page p.
Word(p) == "w" \o ToString(p)

\* The backend's answer for page p in the given shape.
PageAnswer(p, shape) ==
    CASE shape = "plain"  -> <<Word(p)>>
      [] shape = "padded" -> <<SP, Word(p), NL>>
      [] shape = "fenced" -> <<FENCE, "markdown", NL, Word(p), NL, FENCE>>

RECURSIVE LStrip(_)
LStrip(t) ==
    IF t /= <<>> /\ Head(t) \in Whitespace THEN LStrip(Tail(t)) ELSE t

RECURSIVE RStrip(_)
RStrip(t) ==
    IF t /= <<>> /\ t[Len(t)] \in Whitespace
    THEN RStrip(SubSeq(t, 1, Len(t) - 1))
    ELSE t

\* str.strip()
Strip(t) == RStrip(LStrip(t))

\* sep.join(parts)
RECURSIVE Join(_, _)
Join(sep, parts) ==
    IF parts = <<>> THEN <<>>
    ELSE IF Len(parts) = 1 THEN parts[1]
    ELSE parts[1] \o sep \o Join(sep, Tail(parts))

\* "\n\n".join(parts)
JoinBlank(parts) == Join(<<NL, NL>>, parts)

\* ImageProcessor.strip_markdown_code_blocks: re.match of
\* ^FENCE(?:markdown)?\n(.*?)\nFENCE$ with DOTALL.  The header is the fence, an
\* optional "markdown" and a newline; the lazy group ends at the first
\* newline+fence that "$" accepts, that is at the end of the text or before
\* one final newline.
FenceHeaderLen(t) ==
    IF Len(t) >= 2 /\ t[1] = FENCE /\ t[2] = NL THEN 2
    ELSE IF Len(t) >= 3 /\ t[1] = FENCE /\ t[2] = "markdown" /\ t[3] = NL THEN 3
    ELSE 0

FenceCloseAt(t) ==
    LET h == FenceHeaderLen(t)
        ends == {i \in (h + 1)..(Len(t) - 1) :
                    /\ t[i] = NL
                    /\ t[i + 1] = FENCE
                    /\ \/ i + 1 = Len(t)
                       \/ i + 2 = Len(t) /\ t[Len(t)] = NL}
    IN IF h = 0 \/ ends = {} THEN 0
       ELSE CHOOSE i \in ends : \A j \in ends : i <= j

StripMarkdownCodeBlocks(t) ==
    LET h == FenceHeaderLen(t)
        c == FenceCloseAt(t)
    IN IF c = 0 THEN t ELSE SubSeq(t, h + 1, c - 1)

\* The separator marker of a group, without its newline.
PageMarker(page_nums) ==
    IF Len(page_nums) = 1
    THEN "---- Page " \o ToString(page_nums[1]) \o " ----"
    ELSE "---- Pages " \o ToString(page_nums[1]) \o "-"
             \o ToString(page_nums[Len(page_nums)]) \o " ----"

----------------------------------------------------------------------------
\* Provider adapters.  A call of an adapter method yields the backend
\* requests it issued (reqs), whether it returned (ok) and the text returned.
\* answers[p] is the shape of the backend's answer for page p; a backend
\* answers a request of several images with the answers for its images joined
\* by a blank line.

Request(pages, prompt, ok) == [pages |-> pages, prompt |-> prompt, ok |-> ok]

\* AnthropicProvider / GoogleProvider / OllamaProvider.transcribe_image: one
\* request with one image; any failure is raised as ProviderAPIError.
ProviderTranscribeImage(p, prompt, ok, answers) ==
    [reqs |-> <<Request(<<p>>, prompt, ok)>>,
     ok   |-> ok,
     text |-> PageAnswer(p, answers[p])]

\* AnthropicProvider / OllamaProvider.transcribe_images_batch: the content
\* array takes every image in order, then one request is issued.
\* failAt = 0: the request succeeds; failAt > 0: it fails.
MultiImageBatch(pages, prompt, failAt, answers) ==
    [reqs |-> <<Request(pages, prompt, failAt = 0)>>,
     ok   |-> failAt = 0,
     text |-> JoinBlank([j \in 1..Len(pages) |-> PageAnswer(pages[j], answers[pages[j]])])]

\* VisionProvider.transcribe_images_batch (the default GoogleProvider
\* inherits): transcribe_image for each image in turn with the prompt it was
\* given, results joined by a blank line.  failAt = 0: every request
\* succeeds; failAt = j: the j-th request fails and its error propagates.
DefaultBatch(pages, prompt, failAt, answers) ==
    LET made == IF failAt = 0 THEN Len(pages) ELSE failAt
    IN [reqs |-> [j \in 1..made |-> Request(<<pages[j]>>, prompt, j /= failAt)],
        ok   |-> failAt = 0,
        text |-> JoinBlank([j \in 1..Len(pages) |->
                     ProviderTranscribeImage(pages[j], prompt, TRUE, answers).text])]

\* provider.transcribe_images_batch, dispatched on the adapter class.
ProviderTranscribeImagesBatch(prov, pages, prompt, failAt, answers) ==
    IF prov = "google"
    THEN DefaultBatch(pages, prompt, failAt, answers)
    ELSE MultiImageBatch(pages, prompt, failAt, answers)

\* The values of failAt an adapter's batch method can meet.
BatchFailures(prov, pages) ==
    IF prov = "google" THEN 0..Len(pages) ELSE {0, 1}

----------------------------------------------------------------------------
\* Transcriber

\* self.prompt: the base prompt, built once by the constructor.
Prompt == <<"base prompt">>

\* Transcriber._get_batch_prompt: the batch instruction, which names the
\* number of pages, followed by the base prompt.
GetBatchPrompt(num_pages) ==
    <<"batch instruction", ToString(num_pages)>> \o Prompt

\* Transcriber._transcribe_single_page
TranscribeSinglePage(p, ok, answers) ==
    LET r == ProviderTranscribeImage(p, Prompt, ok, answers)
    IN [reqs |-> r.reqs, ok |-> r.ok, text |-> StripMarkdownCodeBlocks(r.text)]

\* A _transcribe_batch that hands a group of one image to
\* transcribe_images_batch with the batch prompt as well.
TranscribeBatchAlwaysBatchPrompt(prov, page_nums, failAt, answers) ==
    LET r == ProviderTranscribeImagesBatch(prov, page_nums,
                                           GetBatchPrompt(Len(page_nums)),
                                           IF Len(page_nums) = 1 /\ failAt > 1 THEN 1 ELSE failAt,
                                           answers)
    IN [reqs |-> r.reqs, ok |-> r.ok, text |-> StripMarkdownCodeBlocks(r.text)]

\* Transcriber._transcribe_batch
TranscribeBatch(prov, page_nums, failAt, answers) ==
    IF Len(page_nums) = 1
    THEN TranscribeSinglePage(page_nums[1], failAt = 0, answers)
    ELSE LET r == ProviderTranscribeImagesBatch(prov, page_nums,
                                                GetBatchPrompt(Len(page_nums)),
                                                failAt, answers)
         IN [reqs |-> r.reqs, ok |-> r.ok, text |-> StripMarkdownCodeBlocks(r.text)]

\* The values of failAt the first attempt of a group can meet.
FirstAttemptFailures(prov, page_nums) ==
    IF Len(page_nums) = 1 THEN {0, 1} ELSE BatchFailures(prov, page_nums)

\* A fallback that catches the failure of a page, leaves the page out and
\* goes on with the next one.
TranscribeBatchFallbackSkipsFailure(page_nums, failAt, answers) ==
    LET one(j) == TranscribeSinglePage(page_nums[j], j /= failAt, answers)
        kept == SelectSeq([j \in 1..Len(page_nums) |-> j], LAMBDA j : j /= failAt)
    IN [reqs |-> [j \in 1..Len(page_nums) |-> one(j).reqs[1]],
        ok   |-> TRUE,
        text |-> JoinBlank([x \in 1..Len(kept) |-> Strip(one(kept[x]).text)])]

\* A fallback that joins the pages with "\n" instead of "\n\n".
TranscribeBatchFallbackOneNewline(page_nums, failAt, answers) ==
    LET made == IF failAt = 0 THEN Len(page_nums) ELSE failAt
        one(j) == TranscribeSinglePage(page_nums[j], j /= failAt, answers)
    IN [reqs |-> [j \in 1..made |-> one(j).reqs[1]],
        ok   |-> failAt = 0,
        text |-> Join(<<NL>>, [j \in 1..Len(page_nums) |-> Strip(one(j).text)])]

\* A fallback that removes a code fence from the joined text instead of
\* from each page's answer.
TranscribeBatchFallbackStripsJoined(page_nums, failAt, answers) ==
    LET made == IF failAt = 0 THEN Len(page_nums) ELSE failAt
        one(j) == ProviderTranscribeImage(page_nums[j], Prompt, j /= failAt, answers)
    IN [reqs |-> [j \in 1..made |-> one(j).reqs[1]],
        ok   |-> failAt = 0,
        text |-> StripMarkdownCodeBlocks(
                     JoinBlank([j \in 1..Len(page_nums) |-> Strip(one(j).text)]))]

\* A fallback that submits the page whose call failed a second time before
\* it gives up.
TranscribeBatchFallbackRetriesPage(page_nums, failAt, answers) ==
    LET made == IF failAt = 0 THEN Len(page_nums) ELSE failAt
        one(j) == ProviderTranscribeImage(page_nums[j], Prompt, j /= failAt, answers)
        again == IF failAt = 0 THEN <<>> ELSE <<one(failAt).reqs[1]>>
    IN [reqs |-> [j \in 1..made |-> one(j).reqs[1]] \o again,
        ok   |-> failAt = 0,
        text |-> JoinBlank([j \in 1..Len(page_nums) |->
                     Strip(StripMarkdownCodeBlocks(one(j).text))])]

\* Transcriber._transcribe_batch_fallback: one _transcribe_single_page per
\* page of the group; nothing catches a failure, so the loop ends at the
\* first failing page (failAt, 0 for none).
TranscribeBatchFallback(page_nums, failAt, answers) ==
    LET made == IF failAt = 0 THEN Len(page_nums) ELSE failAt
        one(j) == TranscribeSinglePage(page_nums[j], j /= failAt, answers)
    IN [reqs |-> [j \in 1..made |-> one(j).reqs[1]],
        ok   |-> failAt = 0,
        text |-> JoinBlank([j \in 1..Len(page_nums) |-> Strip(one(j).text)])]

\* A batch_end that stops one image early.
BatchEndShort(start, size, n) == Min(start + size - 1, n)

\* batch_end of the loop of _transcribe_with_batching
BatchEnd(start, size, n) == Min(start + size, n)

\* batch_page_nums
BatchPageNums(start, end) == [j \in 1..(end - start) |-> start + j]

\* A try/except whose handler calls _transcribe_batch a second time instead
\* of _transcribe_batch_fallback.
GroupAttemptRetryBatch(prov, page_nums, f1, f2, answers) ==
    LET first == TranscribeBatch(prov, page_nums, f1, answers)
        fb    == TranscribeBatch(prov, page_nums, f2, answers)
        tag(rs, path) ==
            [j \in 1..Len(rs) |->
                [pages |-> rs[j].pages, prompt |-> rs[j].prompt, ok |-> rs[j].ok,
                 path |-> path, group |-> page_nums]]
    IN IF first.ok
       THEN [reqs |-> tag(first.reqs, "first"), ok |-> TRUE,
             text |-> first.text, path |-> "first"]
       ELSE [reqs |-> tag(first.reqs, "first") \o tag(fb.reqs, "fallback"),
             ok |-> fb.ok, text |-> fb.text, path |-> "fallback"]

\* The try/except of _transcribe_with_batching for one group: the first
\* attempt and, when it raised, the fallback.  path names where the text
\* came from.
GroupAttempt(prov, page_nums, f1, f2, answers) ==
    LET first == TranscribeBatch(prov, page_nums, f1, answers)
        fb    == TranscribeBatchFallback(page_nums, f2, answers)
        tag(rs, path) ==
            [j \in 1..Len(rs) |->
                [pages |-> rs[j].pages, prompt |-> rs[j].prompt, ok |-> rs[j].ok,
                 path |-> path, group |-> page_nums]]
    IN IF first.ok
       THEN [reqs |-> tag(first.reqs, "first"), ok |-> TRUE,
             text |-> first.text, path |-> "first"]
       ELSE [reqs |-> tag(first.reqs, "first") \o tag(fb.reqs, "fallback"),
             ok |-> fb.ok, text |-> fb.text, path |-> "fallback"]

\* An except clause that catches the interrupt as it catches an Exception:
\* an interrupted first attempt is followed by the fallback.
GroupInterruptedCaught(prov, page_nums, during, f1, f2, answers) ==
    LET g == GroupAttempt(prov, page_nums, f1, f2, answers)
        first == SelectSeq(g.reqs, LAMBDA r : r.path = "first")
    IN [reqs |-> g.reqs, at |-> IF during = "first" THEN Len(first) ELSE Len(g.reqs)]

\* A KeyboardInterrupt that arrives while a request for the group is in
\* flight.  It is no Exception: the except clauses of the adapters and of
\* _transcribe_with_batching let it pass.  during = "first": it arrives in
\* the first attempt, at the request that f1 names; during = "fallback": the
\* first attempt has failed and it arrives at the f2-th fallback request.
\* at is the position of the interrupted request among those of the group.
GroupInterrupted(prov, page_nums, during, f1, f2, answers) ==
    LET g == GroupAttempt(prov, page_nums, f1, f2, answers)
        first == SelectSeq(g.reqs, LAMBDA r : r.path = "first")
    IN IF during = "first"
       THEN [reqs |-> first, at |-> Len(first)]
       ELSE [reqs |-> g.reqs, at |-> Len(g.reqs)]

\* A spacing test that is always true.
NeedsSpacingAlways(index) == TRUE

\* Whether the "\n\n" is written before a group's block in stream mode.
NeedsSpacing(index) == index > 0

\* What one loop iteration writes to the output stream.
StreamWrites(index, separator, page_nums, text) ==
    (IF NeedsSpacing(index) THEN <<NL, NL>> ELSE <<>>)
    \o (IF separator THEN <<PageMarker(page_nums), NL>> ELSE <<>>)
    \o Strip(text)

\* A loop that writes the blank line and the marker of a group before it
\* calls the provider.
AbortedWritesLead(index, separator, page_nums) ==
    (IF NeedsSpacing(index) THEN <<NL, NL>> ELSE <<>>)
    \o (IF separator THEN <<PageMarker(page_nums), NL>> ELSE <<>>)

\* What a loop iteration has written to the output stream when the call for
\* its group raises: nothing, every write comes after the call.
AbortedWrites(index, separator, page_nums) == <<>>

----------------------------------------------------------------------------
\* State

VARIABLES
    images,          \* the image list; image j is page j
    sizes,           \* (width, height) of each image
    batch_size,      \* config.batch_size
    page_separator,  \* config.page_separator
    output,          \* "None" (return a string) or "stream"
    provider,        \* the adapter class of self.provider
    pageText,        \* backend: the shape of its answer per page, once given
    pc,              \* "start", "single", "batching", "done", "raised"
    i,               \* _transcribe_single_pages: the page of the next iteration
    batch_start,     \* _transcribe_with_batching: the loop variable
    all_parts,       \* parts / all_parts
    sink,            \* everything written to the output stream
    ret,             \* the value returned
    raised,          \* "none", or what transcribe_images raised
    calls,           \* history: backend requests of this run, in order
    blocks,          \* history: per group emitted, its pages, its result
                     \* (text before emission), the block emitted and the
                     \* path ("single", "first", "fallback") that gave it
    prev,            \* what an earlier run on the same images and backend gave
    flushed,         \* what of sink output.flush() or close() has pushed out
    closed,          \* transcribe_file has closed the output file
    exit,            \* the exit status of the CLI handler, -1 while it runs
    interrupted      \* 0, or the position in calls of the request that a
                     \* KeyboardInterrupt cut short

\* A provider adapter object, its environment and its backend.
VARIABLES
    package,         \* the backend's client package was imported
    api_key,         \* the API key handed to the constructor is non-empty
    model,           \* "None" or "given": the model argument
    temperature,     \* the temperature argument, in tenths
    endpoint,        \* the Ollama server: "down", "no vision model", "serving"
    constructed,     \* "no", "yes" or the exception the constructor raised
    requests,        \* backend requests issued through the adapter so far
    last             \* the last adapter method call and how it ended

\* A function or constructor called on its own: its name, its argument and
\* what came back.
VARIABLES op, arg, res

engineVars == <<images, sizes, batch_size, page_separator, output, provider,
                pageText, pc, i, batch_start, all_parts, sink, ret, raised, calls,
                blocks, prev, flushed, closed, exit, interrupted>>

\* What the caller of transcribe_images holds, and the interrupt.
callerVars == <<closed, exit, interrupted>>

providerVars == <<package, api_key, model, temperature, endpoint, constructed,
                  requests, last>>

\* Everything but the transcription engine.  provider is shared: it is the
\* class of the adapter.
notEngine == <<package, api_key, model, temperature, endpoint, constructed,
               requests, last, op, arg, res>>

unitVars == <<op, arg, res>>

vars == <<engineVars, providerVars, unitVars>>

inputs == <<images, sizes, page_separator, provider>>

\* No adapter method has been called yet.
NoCall == [method |-> "none", outcome |-> "none", names |-> "none",
           reasons |-> <<>>, text |-> <<>>, made |-> 0, failure |-> "none"]

\* The engine is handed an adapter that was constructed with its default
\* arguments in a working environment.
ProviderReady ==
    /\ package = TRUE
    /\ api_key = TRUE
    /\ model = "None"
    /\ temperature = 2
    /\ endpoint = "serving"
    /\ constructed = "yes"
    /\ requests = 0
    /\ last = NoCall

\* No function has been called on its own.
NoUnit ==
    /\ op = "none"
    /\ arg = <<>>
    /\ res = <<>>

NoRun == [ran |-> FALSE, batch_size |-> 0, output |-> "None", document |-> <<>>,
          blocks |-> <<>>]

\* The document a finished run hands over.
Document == IF output = "None" THEN ret ELSE sink

Init ==
    /\ \E n \in 1..MaxPages : images = [j \in 1..n |-> j]
    /\ sizes = [j \in DOMAIN images |-> <<1, 1>>]
    /\ batch_size \in 1..MaxBatch
    /\ page_separator \in BOOLEAN
    /\ output \in {"None", "stream"}
    /\ provider \in Providers
    /\ pageText = [p \in DOMAIN images |-> "unset"]
    /\ pc = "start"
    /\ i = 0
    /\ batch_start = 0
    /\ all_parts = <<>>
    /\ sink = <<>>
    /\ ret = <<>>
    /\ raised = "none"
    /\ calls = <<>>
    /\ blocks = <<>>
    /\ prev = NoRun
    /\ flushed = <<>>
    /\ closed = FALSE
    /\ exit = -1
    /\ interrupted = 0
    /\ ProviderReady
    /\ NoUnit

\* No transcription is running.
EngineIdle ==
    /\ images = <<>>
    /\ sizes = <<>>
    /\ raised = "none"
    /\ batch_size = 1
    /\ page_separator = FALSE
    /\ output = "None"
    /\ pageText = <<>>
    /\ pc = "idle"
    /\ i = 0
    /\ batch_start = 0
    /\ all_parts = <<>>
    /\ sink = <<>>
    /\ ret = <<>>
    /\ calls = <<>>
    /\ blocks = <<>>
    /\ prev = NoRun
    /\ flushed = <<>>
    /\ closed = FALSE
    /\ exit = -1
    /\ interrupted = 0

\* The answers the backend can give for the pages of a group: an answer
\* already given for a page is given again.
AnswersFor(page_nums) ==
    LET ps == {page_nums[j] : j \in 1..Len(page_nums)}
    IN {a \in [ps -> Shapes] : \A p \in ps : pageText[p] /= "unset" => a[p] = pageText[p]}

\* The backend's answers after the requests reqs were answered from a.
Remember(reqs, a) ==
    LET answered == UNION {{r.pages[j] : j \in 1..Len(r.pages)} :
                              r \in {reqs[k] : k \in {k \in 1..Len(reqs) : reqs[k].ok}}}
    IN [p \in DOMAIN pageText |-> IF p \in answered THEN a[p] ELSE pageText[p]]

\* ImageProcessor.validate_images: "ok", or the exception raised for an
\* empty list or for the first image of width 0 or height 0.
ValidateImages(sz) ==
    IF sz = <<>> THEN "ValueError"
    ELSE IF \E j \in 1..Len(sz) : sz[j][1] = 0 \/ sz[j][2] = 0 THEN "ValueError"
    ELSE "ok"

\* Transcriber.transcribe_images: validate_images, then the dispatch on
\* batch_size.
TranscribeImages ==
    /\ UNCHANGED <<notEngine, callerVars>>
    /\ pc = "start"
    /\ IF ValidateImages(sizes) /= "ok"
       THEN /\ pc' = "raised"
            /\ raised' = ValidateImages(sizes)
            /\ i' = i
       ELSE /\ pc' = IF batch_size > 1 THEN "batching" ELSE "single"
            /\ i' = IF batch_size > 1 THEN 0 ELSE 1
            /\ raised' = raised
    /\ UNCHANGED <<inputs, batch_size, output, pageText, batch_start, all_parts,
                   sink, ret, calls, blocks, prev>>
    /\ flushed' = flushed

\* One iteration of the loop of _transcribe_single_pages (either branch).
SinglePagesIteration ==
    /\ UNCHANGED <<notEngine, callerVars>>
    /\ pc = "single"
    /\ i <= Len(images)
    /\ \E a \in AnswersFor(<<i>>), ok \in BOOLEAN :
          LET r    == TranscribeSinglePage(i, ok, a)
              reqs == [j \in 1..Len(r.reqs) |->
                         [pages |-> r.reqs[j].pages, prompt |-> r.reqs[j].prompt,
                          ok |-> r.reqs[j].ok, path |-> "single", group |-> <<i>>]]
          IN /\ calls' = calls \o reqs
             /\ pageText' = Remember(reqs, a)
             /\ IF r.ok
                THEN /\ pc' = pc
                     /\ i' = i + 1
                     /\ blocks' = Append(blocks, [page_nums |-> <<i>>,
                                                  result |-> r.text,
                                                  text |-> Strip(r.text),
                                                  path |-> "single"])
                     /\ IF output = "None"
                        THEN /\ all_parts' = Append(all_parts, Strip(r.text))
                             /\ sink' = sink
                        ELSE /\ sink' = sink \o StreamWrites(i - 1, page_separator, <<i>>, r.text)
                             /\ all_parts' = all_parts
                ELSE /\ pc' = "raised"
                     /\ sink' = IF output = "None" THEN sink
                                ELSE sink \o AbortedWrites(i - 1, page_separator, <<i>>)
                     /\ UNCHANGED <<i, blocks, all_parts>>
             /\ raised' = IF r.ok THEN raised ELSE "from provider"
    /\ UNCHANGED <<inputs, batch_size, output, batch_start, ret, prev>>
    /\ flushed' = IF pc' = "raised" THEN flushed ELSE sink'

\* The end of _transcribe_single_pages.
SinglePagesReturn ==
    /\ UNCHANGED <<notEngine, callerVars>>
    /\ pc = "single"
    /\ i > Len(images)
    /\ pc' = "done"
    /\ IF output = "None"
       THEN /\ ret' = JoinBlank(all_parts)
            /\ sink' = sink
       ELSE /\ sink' = sink \o <<NL>>
            /\ ret' = <<>>
    /\ UNCHANGED <<inputs, batch_size, output, pageText, i, batch_start,
                   all_parts, raised, calls, blocks, prev>>
    /\ flushed' = flushed

\* One iteration of the loop of _transcribe_with_batching: the try/except
\* around _transcribe_batch, the fallback, and the emission of the block.
BatchingIteration ==
    /\ UNCHANGED <<notEngine, callerVars>>
    /\ pc = "batching"
    /\ batch_start < Len(images)
    /\ LET batch_end      == BatchEnd(batch_start, batch_size, Len(images))
           batch_page_nums == BatchPageNums(batch_start, batch_end)
       IN \E a \in AnswersFor(batch_page_nums),
             f1 \in FirstAttemptFailures(provider, batch_page_nums),
             f2 \in 0..Len(batch_page_nums) :
            LET g == GroupAttempt(provider, batch_page_nums, f1, f2, a)
            IN /\ (f1 = 0 => f2 = 0)
               /\ calls' = calls \o g.reqs
               /\ pageText' = Remember(g.reqs, a)
               /\ IF g.ok
                  THEN /\ pc' = pc
                       /\ batch_start' = batch_start + batch_size
                       /\ blocks' = Append(blocks, [page_nums |-> batch_page_nums,
                                                    result |-> g.text,
                                                    text |-> Strip(g.text),
                                                    path |-> g.path])
                       /\ IF output = "None"
                          THEN /\ all_parts' = Append(all_parts, Strip(g.text))
                               /\ sink' = sink
                          ELSE /\ sink' = sink \o StreamWrites(batch_start, page_separator,
                                                             batch_page_nums, g.text)
                               /\ all_parts' = all_parts
                  ELSE /\ pc' = "raised"
                       /\ sink' = IF output = "None" THEN sink
                                  ELSE sink \o AbortedWrites(batch_start, page_separator,
                                                             batch_page_nums)
                       /\ UNCHANGED <<batch_start, blocks, all_parts>>
               /\ raised' = IF g.ok THEN raised ELSE "from provider"
    /\ UNCHANGED <<inputs, batch_size, output, i, ret, prev>>
    /\ flushed' = IF pc' = "raised" THEN flushed ELSE sink'

\* The end of _transcribe_with_batching.
BatchingReturn ==
    /\ UNCHANGED <<notEngine, callerVars>>
    /\ pc = "batching"
    /\ batch_start >= Len(images)
    /\ pc' = "done"
    /\ IF output = "None"
       THEN /\ ret' = JoinBlank(all_parts)
            /\ sink' = sink
       ELSE /\ sink' = sink \o <<NL>>
            /\ ret' = <<>>
    /\ UNCHANGED <<inputs, batch_size, output, pageText, i, batch_start,
                   all_parts, raised, calls, blocks, prev>>
    /\ flushed' = flushed

Next ==
    \/ TranscribeImages
    \/ SinglePagesIteration
    \/ SinglePagesReturn
    \/ BatchingIteration
    \/ BatchingReturn

Spec == Init /\ [][Next]_vars

----------------------------------------------------------------------------
\* A caller that transcribes the same images twice with the same provider
\* and backend and keeps the first run's document and blocks to compare: the
\* second run has the same configuration or the other sink mode, or it swaps
\* batch size 1 and batch size len(images).

Rerun ==
    /\ UNCHANGED <<notEngine, callerVars>>
    /\ pc = "done"
    /\ ~prev.ran
    /\ prev' = [ran |-> TRUE, batch_size |-> batch_size, output |-> output,
                document |-> Document, blocks |-> blocks]
    /\ \E k \in 1..MaxBatch, o \in {"None", "stream"} :
          /\ \/ k = batch_size
             \/ o = output /\ k /= batch_size /\ {k, batch_size} = {1, Len(images)}
          /\ batch_size' = k
          /\ output' = o
    /\ pc' = "start"
    /\ i' = 0
    /\ batch_start' = 0
    /\ all_parts' = <<>>
    /\ sink' = <<>>
    /\ ret' = <<>>
    /\ calls' = <<>>
    /\ blocks' = <<>>
    /\ UNCHANGED <<inputs, pageText, raised>>
    /\ flushed' = <<>>

NextTwice ==
    \/ TranscribeImages
    \/ SinglePagesIteration
    \/ SinglePagesReturn
    \/ BatchingIteration
    \/ BatchingReturn
    \/ Rerun

InitTwice == Init /\ Len(images) <= MaxPagesTwice

SpecTwice == InitTwice /\ [][NextTwice]_vars

----------------------------------------------------------------------------
\* The engine as a sequential program: a call of transcribe_images that has
\* a step to take takes it (every provider call returns or raises).

\* Bound: the pages of a run checked for termination.
MaxPagesFair == 4

InitFair == Init /\ Len(images) <= MaxPagesFair

\* Where the program is: every step of Next changes it.
position == <<pc, i, batch_start>>

\* A step of the running program, whatever it does: transcribe_images has
\* been called and has neither returned nor raised, and it moves on.
Advance ==
    /\ pc \in {"start", "single", "batching"}
    /\ pc' \in {"single", "batching", "done", "raised"}
    /\ i' \in 0..(Len(images) + 1)
    /\ batch_start' \in 0..(Len(images) + batch_size)

SpecFair == InitFair /\ [][Next]_vars /\ WF_position(Advance)

----------------------------------------------------------------------------
\* transcribe_pdf_file of cli/script2text.py with an output path: the
\* handler calls Transcriber.transcribe_file, which opens the output file,
\* runs transcribe_images on it and closes it in a finally clause; the
\* handler then ends with status 0, or with status 1 from one of its except
\* clauses.  A KeyboardInterrupt may arrive while a provider call is in
\* flight.

\* Bound: the pages of such a run.
MaxPagesFile == 5

InitFile == Init /\ output = "stream" /\ Len(images) <= MaxPagesFile

\* KeyboardInterrupt during the provider call of _transcribe_single_pages.
InterruptSinglePage ==
    /\ pc = "single"
    /\ i <= Len(images)
    /\ interrupted = 0
    /\ \E a \in AnswersFor(<<i>>) :
          LET r == TranscribeSinglePage(i, FALSE, a)
          IN calls' = calls \o [j \in 1..Len(r.reqs) |->
                          [pages |-> r.reqs[j].pages, prompt |-> r.reqs[j].prompt,
                           ok |-> FALSE, path |-> "single", group |-> <<i>>]]
    /\ interrupted' = Len(calls')
    /\ pc' = "raised"
    /\ raised' = "KeyboardInterrupt"
    /\ sink' = sink \o AbortedWrites(i - 1, page_separator, <<i>>)
    /\ UNCHANGED <<notEngine, inputs, batch_size, output, pageText, i, batch_start,
                   all_parts, ret, blocks, prev, flushed, closed, exit>>

\* KeyboardInterrupt during a provider call of _transcribe_with_batching.
InterruptBatch ==
    /\ pc = "batching"
    /\ batch_start < Len(images)
    /\ interrupted = 0
    /\ LET batch_end      == BatchEnd(batch_start, batch_size, Len(images))
           batch_page_nums == BatchPageNums(batch_start, batch_end)
       IN /\ \E a \in AnswersFor(batch_page_nums),
                f1 \in FirstAttemptFailures(provider, batch_page_nums) \ {0},
                f2 \in 1..Len(batch_page_nums),
                during \in {"first", "fallback"} :
                LET x == GroupInterrupted(provider, batch_page_nums, during, f1, f2, a)
                IN /\ calls' = calls \o x.reqs
                   /\ interrupted' = Len(calls) + x.at
                   /\ pageText' = Remember(x.reqs, a)
          /\ sink' = sink \o AbortedWrites(batch_start, page_separator, batch_page_nums)
    /\ pc' = "raised"
    /\ raised' = "KeyboardInterrupt"
    /\ UNCHANGED <<notEngine, inputs, batch_size, output, i, batch_start,
                   all_parts, ret, blocks, prev, flushed, closed, exit>>

\* The finally clause of Transcriber.transcribe_file: the file is closed,
\* which pushes out what was written and not yet flushed.
TranscribeFileFinally ==
    /\ pc \in {"done", "raised"}
    /\ ~closed
    /\ closed' = TRUE
    /\ flushed' = sink
    /\ UNCHANGED <<notEngine, inputs, batch_size, output, pageText, pc, i,
                   batch_start, all_parts, sink, ret, raised, calls, blocks, prev,
                   exit, interrupted>>

\* The end of transcribe_pdf_file: status 0 when transcribe_file returned,
\* status 1 from "except KeyboardInterrupt" and from "except Exception".
TranscribePdfFileExit ==
    /\ closed
    /\ exit = -1
    /\ exit' = IF pc = "done" THEN 0 ELSE 1
    /\ UNCHANGED <<notEngine, inputs, batch_size, output, pageText, pc, i,
                   batch_start, all_parts, sink, ret, raised, calls, blocks, prev,
                   flushed, closed, interrupted>>

NextFile ==
    \/ TranscribeImages
    \/ SinglePagesIteration
    \/ SinglePagesReturn
    \/ BatchingIteration
    \/ BatchingReturn
    \/ InterruptSinglePage
    \/ InterruptBatch
    \/ TranscribeFileFinally
    \/ TranscribePdfFileExit

SpecFile == InitFile /\ [][NextFile]_vars

----------------------------------------------------------------------------
\* A caller that hands over any list of images: an empty one, or images of
\* which some have width 0 or height 0.

\* Bound: the longest such list.
MaxPagesAnySize == 3

InitAnyImages ==
    /\ \E n \in 0..MaxPagesAnySize :
          /\ images = [j \in 1..n |-> j]
          /\ sizes \in [1..n -> {0, 1} \X {0, 1}]
    /\ batch_size \in 1..MaxBatch
    /\ page_separator \in BOOLEAN
    /\ output \in {"None", "stream"}
    /\ provider \in Providers
    /\ pageText = [p \in DOMAIN images |-> "unset"]
    /\ pc = "start"
    /\ i = 0
    /\ batch_start = 0
    /\ all_parts = <<>>
    /\ sink = <<>>
    /\ ret = <<>>
    /\ raised = "none"
    /\ calls = <<>>
    /\ blocks = <<>>
    /\ prev = NoRun
    /\ flushed = <<>>
    /\ closed = FALSE
    /\ exit = -1
    /\ interrupted = 0
    /\ ProviderReady
    /\ NoUnit

SpecAnyImages == InitAnyImages /\ [][Next]_vars

----------------------------------------------------------------------------
\* The provider adapters in detail: construction, then method calls against
\* a backend that answers each request with a response or a transport error.

\* Bound: the backend requests issued through one adapter object.
MaxRequests == 3

\* Temperatures in tenths: -0.1, 0.0, 0.2 (the default), 2.0, 2.5.
Temperatures == {-1, 0, 2, 20, 25}

\* 0.0 <= temperature <= 2.0
TemperatureValid(t) == 0 <= t /\ t <= 20

\* finish_reason of a Gemini candidate: 0=UNSPECIFIED, 1=STOP, 2=MAX_TOKENS,
\* 3=SAFETY, 4=RECITATION, 5=OTHER.
GoogleFinishReasons ==
    {"UNSPECIFIED", "STOP", "MAX_TOKENS", "SAFETY", "RECITATION", "OTHER"}

\* stop_reason of an Anthropic message and done_reason of an Ollama chat
\* response; neither adapter reads it.
AnthropicStopReasons == {"end_turn", "max_tokens"}

OllamaDoneReasons == {"stop", "length"}

\* finish_reason of an OpenAI chat completion (script2text.py only).
OpenAIFinishReasons == {"stop", "length"}

StopReasons(cls) ==
    CASE cls = "google"    -> GoogleFinishReasons
      [] cls = "anthropic" -> AnthropicStopReasons
      [] cls = "ollama"    -> OllamaDoneReasons
      [] cls = "openai"    -> OpenAIFinishReasons

\* The reasons that mean the generation completed normally.
NormalCompletion == {"STOP", "end_turn", "stop"}

\* What a backend gives for one request: a transport error, or a response
\* with a stop reason and a content: the full text after a normal
\* completion, otherwise a partial text or none.  A server that is down
\* answers nothing.
Responses(cls, ep) ==
    {[transport |-> FALSE, reason |-> "none", content |-> "none"]}
    \cup (IF cls = "ollama" /\ ep = "down" THEN {}
          ELSE {[transport |-> TRUE, reason |-> r, content |-> c] :
                  r \in StopReasons(cls), c \in {"full", "partial", "none"}}
               \ {x \in [transport : {TRUE}, reason : StopReasons(cls),
                         content : {"full", "partial", "none"}] :
                     (x.reason \in NormalCompletion) /= (x.content = "full")})

\* How a call ended: the requests it made, "returned" or the exception that
\* left the method, the stop reason the error message names, the stop
\* reasons of the responses received, the text returned and what failed.
Ended(method, made, outcome, names, reasons, text, failure) ==
    [method |-> method, made |-> made, outcome |-> outcome, names |-> names,
     reasons |-> reasons, text |-> text, failure |-> failure]

\* AnthropicProvider.transcribe_image: _image_to_base64 runs before the try;
\* inside it the request, then response.content[0].text.
AnthropicTranscribeImage(encodable, resp) ==
    LET m == "transcribe_image"
    IN IF ~encodable
       THEN Ended(m, 0, "OSError", "none", <<>>, <<>>, "encoding")
       ELSE IF ~resp.transport
       THEN Ended(m, 1, "ProviderAPIError", "none", <<>>, <<>>, "transport")
       ELSE IF resp.content = "none"
       THEN Ended(m, 1, "ProviderAPIError", "none", <<resp.reason>>, <<>>, "response")
       ELSE Ended(m, 1, "returned", "none", <<resp.reason>>, <<resp.content>>, "none")

\* AnthropicProvider.transcribe_images_batch: as transcribe_image for one
\* request with every image, but the encoding is inside the try.
AnthropicTranscribeImagesBatch(encodable, resp) ==
    LET m == "transcribe_images_batch"
    IN IF ~encodable
       THEN Ended(m, 0, "ProviderAPIError", "none", <<>>, <<>>, "encoding")
       ELSE IF ~resp.transport
       THEN Ended(m, 1, "ProviderAPIError", "none", <<>>, <<>>, "transport")
       ELSE IF resp.content = "none"
       THEN Ended(m, 1, "ProviderAPIError", "none", <<resp.reason>>, <<>>, "response")
       ELSE Ended(m, 1, "returned", "none", <<resp.reason>>, <<resp.content>>, "none")

\* OllamaProvider.transcribe_image and transcribe_images_batch: everything
\* is inside the try; response["message"]["content"] is returned as it is,
\* the empty string included.
OllamaCall(m, encodable, resp) ==
    IF ~encodable
    THEN Ended(m, 0, "ProviderAPIError", "none", <<>>, <<>>, "encoding")
    ELSE IF ~resp.transport
    THEN Ended(m, 1, "ProviderAPIError", "none", <<>>, <<>>, "transport")
    ELSE Ended(m, 1, "returned", "none", <<resp.reason>>,
               IF resp.content = "none" THEN <<>> ELSE <<resp.content>>, "none")

\* GoogleProvider.transcribe_image: everything is inside the try.  The
\* finish_reason is tested before response.text is read: RECITATION and
\* SAFETY raise, so does every reason not in [UNSPECIFIED, STOP];
\* response.text raises when the response has no text.
GoogleTranscribeImage(encodable, resp) ==
    LET m == "transcribe_image"
    IN IF ~encodable
       THEN Ended(m, 0, "ProviderAPIError", "none", <<>>, <<>>, "encoding")
       ELSE IF ~resp.transport
       THEN Ended(m, 1, "ProviderAPIError", "none", <<>>, <<>>, "transport")
       ELSE IF resp.reason \notin {"UNSPECIFIED", "STOP"}
       THEN Ended(m, 1, "ProviderAPIError", resp.reason, <<resp.reason>>, <<>>, "reason")
       ELSE IF resp.content = "none"
       THEN Ended(m, 1, "ProviderAPIError", "none", <<resp.reason>>, <<>>, "response")
       ELSE Ended(m, 1, "returned", "none", <<resp.reason>>, <<resp.content>>, "none")

\* VisionProvider.transcribe_images_batch as GoogleProvider inherits it:
\* transcribe_image per image, resps[j] answering the j-th; the first
\* exception leaves the loop.
RECURSIVE GoogleTranscribeImagesBatch(_, _)
GoogleTranscribeImagesBatch(encodable, resps) ==
    LET m == "transcribe_images_batch"
        one == GoogleTranscribeImage(encodable, Head(resps))
        others == GoogleTranscribeImagesBatch(encodable, Tail(resps))
    IN IF resps = <<>>
       THEN Ended(m, 0, "returned", "none", <<>>, <<>>, "none")
       ELSE IF one.outcome /= "returned"
       THEN Ended(m, one.made, one.outcome, one.names, one.reasons, <<>>, one.failure)
       ELSE Ended(m, one.made + others.made, others.outcome, others.names,
                  one.reasons \o others.reasons,
                  IF others.outcome = "returned" THEN one.text \o others.text ELSE <<>>,
                  others.failure)

\* transcribe_image / transcribe_images_batch of the adapter class cls for n
\* images; resps are the backend's answers to the requests in order.
AdapterCall(cls, n, batch, encodable, resps) ==
    CASE cls = "anthropic" /\ ~batch -> AnthropicTranscribeImage(encodable, resps[1])
      [] cls = "anthropic" /\ batch  -> AnthropicTranscribeImagesBatch(encodable, resps[1])
      [] cls = "ollama" /\ ~batch    -> OllamaCall("transcribe_image", encodable, resps[1])
      [] cls = "ollama" /\ batch     -> OllamaCall("transcribe_images_batch", encodable, resps[1])
      [] cls = "google" /\ ~batch    -> GoogleTranscribeImage(encodable, resps[1])
      [] cls = "google" /\ batch     -> GoogleTranscribeImagesBatch(encodable, SubSeq(resps, 1, n))

\* AnthropicProvider.__init__ / GoogleProvider.__init__: the package, the
\* API key, then VisionProvider.__init__ with its temperature test.
CloudProviderInit(pkg, key, t) ==
    IF ~pkg THEN "ProviderNotAvailableError"
    ELSE IF ~key THEN "ProviderNotAvailableError"
    ELSE IF ~TemperatureValid(t) THEN "ValueError"
    ELSE "yes"

\* OllamaProvider._detect_vision_model: a model name, or None when the
\* server lists no vision model or cannot be reached.
DetectVisionModel(ep) == IF ep = "serving" THEN "detected" ELSE "None"

\* OllamaProvider.__init__: the package; the server is asked for its models
\* only when no model was named.
OllamaProviderInit(pkg, mdl, ep, t) ==
    IF ~pkg THEN "ProviderNotAvailableError"
    ELSE IF mdl = "None" /\ DetectVisionModel(ep) = "None" THEN "ProviderNotAvailableError"
    ELSE IF ~TemperatureValid(t) THEN "ValueError"
    ELSE "yes"

\* The backends of the standalone script2text.py.
ScriptBackends == {"anthropic", "google", "openai"}

\* The string a process_with_* method of script2text.py returns from its
\* except clause.
ErrorText(backend) == "Error processing with " \o backend

\* PDFHandwritingOCR.process_page of script2text.py: process_with_anthropic
\* and process_with_openai encode the image before their try,
\* process_with_gemini sends it inside; every except clause returns the
\* error message as the page's text.
ScriptProcessPage(backend, encodable, resp) ==
    LET m == "process_page"
        caught(f) == Ended(m, IF f = "encoding" THEN 0 ELSE 1, "returned", "none",
                           IF f = "response" THEN <<resp.reason>> ELSE <<>>,
                           <<ErrorText(backend)>>, f)
    IN IF ~encodable
       THEN IF backend = "google" THEN caught("encoding")
            ELSE Ended(m, 0, "OSError", "none", <<>>, <<>>, "encoding")
       ELSE IF ~resp.transport THEN caught("transport")
       ELSE IF resp.content = "none"
       THEN IF backend = "openai"
            THEN Ended(m, 1, "returned", "none", <<resp.reason>>, <<"None">>, "none")
            ELSE caught("response")
       ELSE Ended(m, 1, "returned", "none", <<resp.reason>>, <<resp.content>>, "none")

InitProvider ==
    /\ EngineIdle
    /\ provider \in Providers
    /\ package \in BOOLEAN
    /\ api_key \in BOOLEAN
    /\ model \in {"None", "given"}
    /\ temperature \in Temperatures
    /\ endpoint \in {"down", "no vision model", "serving"}
    /\ constructed = "no"
    /\ requests = 0
    /\ last = NoCall
    /\ NoUnit

\* The constructor of the adapter class.
ProviderInit ==
    /\ constructed = "no"
    /\ constructed' = IF provider = "ollama"
                      THEN OllamaProviderInit(package, model, endpoint, temperature)
                      ELSE CloudProviderInit(package, api_key, temperature)
    /\ UNCHANGED <<engineVars, unitVars, package, api_key, model, temperature,
                   endpoint, requests, last>>

\* provider.transcribe_image(image, prompt)
ProviderTranscribeImageCall ==
    /\ constructed = "yes"
    /\ requests < MaxRequests
    /\ \E encodable \in BOOLEAN, resp \in Responses(provider, endpoint) :
          LET e == AdapterCall(provider, 1, FALSE, encodable, <<resp>>)
          IN /\ last' = e
             /\ requests' = requests + e.made
    /\ UNCHANGED <<engineVars, unitVars, package, api_key, model, temperature,
                   endpoint, constructed>>

\* provider.transcribe_images_batch(images, prompt) with two images
ProviderTranscribeImagesBatchCall ==
    /\ constructed = "yes"
    /\ requests + 2 <= MaxRequests
    /\ \E encodable \in BOOLEAN, r1 \in Responses(provider, endpoint),
          r2 \in Responses(provider, endpoint) :
          LET e == AdapterCall(provider, 2, TRUE, encodable, <<r1, r2>>)
          IN /\ last' = e
             /\ requests' = requests + e.made
    /\ UNCHANGED <<engineVars, unitVars, package, api_key, model, temperature,
                   endpoint, constructed>>

\* script2text.py: one page is processed by the script's own client.
ScriptProcessPageCall ==
    /\ \E backend \in ScriptBackends, encodable \in BOOLEAN :
          \E resp \in Responses(backend, "serving") :
             last' = ScriptProcessPage(backend, encodable, resp)
    /\ UNCHANGED <<engineVars, unitVars, package, api_key, model, temperature,
                   endpoint, constructed, requests>>

NextProvider ==
    \/ ProviderInit
    \/ ProviderTranscribeImageCall
    \/ ProviderTranscribeImagesBatchCall
    \/ ScriptProcessPageCall

SpecProvider == InitProvider /\ [][NextProvider]_vars

----------------------------------------------------------------------------
\* Constructors and functions called on their own, with arguments of every
\* kind.

\* The batch_size arguments tried: from -1 up.
BatchSizes == -1..MaxBatch

\* TranscriptionConfig.__post_init__: the dataclass holds the arguments as
\* given; an argument out of range raises.
TranscriptionConfigInit(t, sep, bs) ==
    IF ~(0 <= t /\ t <= 20)
    THEN [raised |-> "ValueError", instance |-> <<>>]
    ELSE IF bs < 1
    THEN [raised |-> "ValueError", instance |-> <<>>]
    ELSE [raised |-> "none",
          instance |-> <<[temperature |-> t, page_separator |-> sep, batch_size |-> bs]>>]

InitUnits ==
    /\ EngineIdle
    /\ provider = "anthropic"
    /\ ProviderReady
    /\ NoUnit

\* TranscriptionConfig(temperature=t, page_separator=sep, batch_size=bs)
NewTranscriptionConfig ==
    /\ op = "none"
    /\ \E t \in Temperatures, sep \in BOOLEAN, bs \in BatchSizes :
          /\ op' = "TranscriptionConfig"
          /\ arg' = [temperature |-> t, page_separator |-> sep, batch_size |-> bs]
          /\ res' = TranscriptionConfigInit(t, sep, bs)
    /\ UNCHANGED <<engineVars, providerVars>>

\* A file suffix is the sequence of its characters, the dot included; the
\* empty sequence is a path without a suffix.
UpperCase == <<"A", "B", "C", "D", "E", "F", "G", "H", "I", "J", "K", "L", "M",
               "N", "O", "P", "Q", "R", "S", "T", "U", "V", "W", "X", "Y", "Z">>

LowerCase == <<"a", "b", "c", "d", "e", "f", "g", "h", "i", "j", "k", "l", "m",
               "n", "o", "p", "q", "r", "s", "t", "u", "v", "w", "x", "y", "z">>

LowerChar(c) ==
    IF \E k \in 1..Len(UpperCase) : UpperCase[k] = c
    THEN LowerCase[CHOOSE k \in 1..Len(UpperCase) : UpperCase[k] = c]
    ELSE c

\* A lower() that leaves every character as it is.
LowerKeepsCase(chars) == chars

\* str.lower()
Lower(chars) == [k \in 1..Len(chars) |-> LowerChar(chars[k])]

\* The position of a character in the order of its code: the dot before
\* the letters.
Ord(c) ==
    IF c = "." THEN 0
    ELSE IF \E k \in 1..Len(UpperCase) : UpperCase[k] = c
    THEN CHOOSE k \in 1..Len(UpperCase) : UpperCase[k] = c
    ELSE 100 + CHOOSE k \in 1..Len(LowerCase) : LowerCase[k] = c

\* a < b for two strings
RECURSIVE StrLess(_, _)
StrLess(a, b) ==
    IF b = <<>> THEN FALSE
    ELSE IF a = <<>> THEN TRUE
    ELSE IF Head(a) = Head(b) THEN StrLess(Tail(a), Tail(b))
    ELSE Ord(Head(a)) < Ord(Head(b))

Note == <<".", "n", "o", "t", "e">>
Pdf  == <<".", "p", "d", "f">>
Png  == <<".", "p", "n", "g">>
Jpg  == <<".", "j", "p", "g">>
Jpeg == <<".", "j", "p", "e", "g">>
Webp == <<".", "w", "e", "b", "p">>

\* SUPPORTED_EXTENSIONS of sources/factory.py, in the order of the dict.
SupportedKeys == <<Note, Pdf, Png, Jpg, Jpeg, Webp>>

SUPPORTED_EXTENSIONS ==
    [e \in {SupportedKeys[k] : k \in 1..Len(SupportedKeys)} |->
        CASE e = Note -> <<"NoteFileHandler", "Supernote">>
          [] e = Pdf  -> <<"PDFFileHandler", "PDF">>
          [] e = Png  -> <<"ImageFileHandler", "PNG image">>
          [] e = Jpg  -> <<"ImageFileHandler", "JPEG image">>
          [] e = Jpeg -> <<"ImageFileHandler", "JPEG image">>
          [] e = Webp -> <<"ImageFileHandler", "WebP image">>]

\* The suffixes tried.
Suffixes ==
    {Note, Pdf, Png, Jpg, Jpeg, Webp,
     <<".", "N", "O", "T", "E">>, <<".", "N", "o", "t", "e">>,
     <<".", "P", "D", "F">>, <<".", "P", "d", "f">>,
     <<".", "P", "N", "G">>, <<".", "J", "P", "G">>, <<".", "j", "p", "E", "G">>,
     <<".", "W", "e", "b", "P">>,
     <<>>, <<".">>, <<".", "t", "x", "t">>, <<".", "T", "X", "T">>,
     <<".", "g", "i", "f">>, <<".", "p", "d">>, <<".", "p", "d", "f", "x">>,
     <<".", "n", "o", "t", "e", "s">>, <<".", "j", "p", "e">>}

\* factory.get_handler: the entry of SUPPORTED_EXTENSIONS for the lowered
\* suffix, or FileFormatError with the lowered suffix and the sorted keys.
GetHandler(suffix) ==
    LET ext == Lower(suffix)
    IN IF ext \notin DOMAIN SUPPORTED_EXTENSIONS
       THEN [raised |-> "FileFormatError",
             message |-> [ext |-> ext, supported |-> SortSeq(SupportedKeys, StrLess)],
             handler |-> "none", format_name |-> "none"]
       ELSE [raised |-> "none", message |-> <<>>,
             handler |-> SUPPORTED_EXTENSIONS[ext][1],
             format_name |-> SUPPORTED_EXTENSIONS[ext][2]]

\* Bound: the pages of a PDF document.
MaxPdfPages == 2

\* The side an embedded image must exceed.
MinImageSide == 100

\* The embedded images of a PDF page: whether Image.open reads the data, and
\* the size read.
BigImage    == [opens |-> TRUE, width |-> 101, height |-> 101]
NarrowImage == [opens |-> TRUE, width |-> 100, height |-> 101]
ShortImage  == [opens |-> TRUE, width |-> 101, height |-> 100]
BrokenImage == [opens |-> FALSE, width |-> 0, height |-> 0]

\* The pages tried: a page is the sequence of its embedded images.
PdfPageKinds ==
    {<<>>, <<BigImage>>, <<NarrowImage>>, <<ShortImage>>, <<BrokenImage>>,
     <<BigImage, BigImage>>, <<NarrowImage, BigImage>>, <<BigImage, ShortImage>>,
     <<BrokenImage, BigImage>>}

PdfDocs == UNION {[1..n -> PdfPageKinds] : n \in 1..MaxPdfPages}

\* A size test that lets an image of exactly the minimum side through.
AcceptsAtThreshold(img) ==
    img.opens /\ img.width >= MinImageSide /\ img.height >= MinImageSide

\* The test of extract_embedded_images on one embedded image: Image.open
\* succeeds and both sides exceed the minimum.
Accepts(img) ==
    img.opens /\ img.width > MinImageSide /\ img.height > MinImageSide

\* An image of the result: the page it came from and its position among the
\* embedded images of that page (0 for a rendering of the whole page).
PageImage(p, k) == [page |-> p, index |-> k]

\* The images extract_embedded_images appends for pages p..upto.
RECURSIVE EmbeddedFrom(_, _, _)
EmbeddedFrom(doc, p, upto) ==
    IF p > upto THEN <<>>
    ELSE LET all == [k \in 1..Len(doc[p]) |-> PageImage(p, k)]
         IN SelectSeq(all, LAMBDA x : Accepts(doc[p][x.index]))
            \o EmbeddedFrom(doc, p + 1, upto)

\* PDFFileHandler.extract_embedded_images.  errAt = 0: the document is read
\* to its end; errAt = p: reading page p raises, the except clause prints
\* the error and the images appended so far are returned.
ExtractEmbeddedImages(doc, libs, errAt) ==
    IF ~libs THEN [raised |-> "FileFormatError", images |-> <<>>]
    ELSE [raised |-> "none",
          images |-> EmbeddedFrom(doc, 1, IF errAt = 0 THEN Len(doc) ELSE errAt - 1)]

\* PDFFileHandler.render_pages: one image per page, or FileFormatError.
RenderPages(doc, libs, renders) ==
    IF ~libs \/ ~renders THEN [raised |-> "FileFormatError", images |-> <<>>]
    ELSE [raised |-> "none", images |-> [p \in 1..Len(doc) |-> PageImage(p, 0)]]

\* PDFFileHandler.extract_images
PdfExtractImages(doc, exists, libs, force_render, errAt, renders) ==
    LET e == ExtractEmbeddedImages(doc, libs, errAt)
        r == RenderPages(doc, libs, renders)
    IN IF ~exists
       THEN [raised |-> "FileNotFoundError", path |-> "none", images |-> <<>>]
       ELSE IF ~force_render /\ e.raised /= "none"
       THEN [raised |-> e.raised, path |-> "none", images |-> <<>>]
       ELSE IF ~force_render /\ e.images /= <<>>
       THEN [raised |-> "none", path |-> "embedded", images |-> e.images]
       ELSE IF r.raised /= "none"
       THEN [raised |-> r.raised, path |-> "none", images |-> <<>>]
       ELSE [raised |-> "none", path |-> "rendered", images |-> r.images]

\* NoteFileHandler.extract_images: one image per page of the notebook.
NoteExtractImages(n, exists, libs, loads) ==
    IF ~libs THEN [raised |-> "FileFormatError", path |-> "none", images |-> <<>>]
    ELSE IF ~exists THEN [raised |-> "FileNotFoundError", path |-> "none", images |-> <<>>]
    ELSE IF ~loads THEN [raised |-> "FileFormatError", path |-> "none", images |-> <<>>]
    ELSE [raised |-> "none", path |-> "note", images |-> [p \in 1..n |-> PageImage(p, 0)]]

\* ImageFileHandler.extract_images: the image as a list of one.
ImageExtractImages(suffix, exists, loads) ==
    IF ~exists THEN [raised |-> "FileFormatError", path |-> "none", images |-> <<>>]
    ELSE IF Lower(suffix) \notin {Png, Jpg, Jpeg, Webp}
    THEN [raised |-> "FileFormatError", path |-> "none", images |-> <<>>]
    ELSE IF ~loads THEN [raised |-> "FileFormatError", path |-> "none", images |-> <<>>]
    ELSE [raised |-> "none", path |-> "image", images |-> <<PageImage(1, 0)>>]

\* factory.extract_images: get_handler, then the handler's extract_images.
\* attempted is the handler whose extract_images was called.  A PDF that
\* does not load fails at its first page and cannot be rendered either.
FactoryExtractImages(suffix, f) ==
    LET h == GetHandler(suffix)
        x == CASE h.handler = "NoteFileHandler" ->
                    NoteExtractImages(Len(f.doc), f.exists, f.libs, f.loads)
               [] h.handler = "PDFFileHandler" ->
                    PdfExtractImages(f.doc, f.exists, f.libs, f.force_render,
                                     IF f.loads THEN 0 ELSE 1, f.loads)
               [] h.handler = "ImageFileHandler" ->
                    ImageExtractImages(suffix, f.exists, f.loads)
               [] OTHER -> [raised |-> h.raised, path |-> "none", images |-> <<>>]
    IN [raised |-> x.raised, message |-> h.message, handler |-> h.handler,
        attempted |-> h.handler, path |-> x.path, images |-> x.images]

\* factory.extract_images(path, **kwargs) on a file that is there or not,
\* loads or not.
FactoryExtractImagesCall ==
    /\ op = "none"
    /\ \E suffix \in Suffixes, exists \in BOOLEAN, libs \in BOOLEAN,
          loads \in BOOLEAN, force_render \in BOOLEAN,
          page \in {<<BigImage>>, <<NarrowImage>>} :
          LET f == [exists |-> exists, libs |-> libs, loads |-> loads,
                    force_render |-> force_render, doc |-> <<page>>]
          IN /\ op' = "extract_images"
             /\ arg' = [suffix |-> suffix, file |-> f]
             /\ res' = FactoryExtractImages(suffix, f)
    /\ UNCHANGED <<engineVars, providerVars>>

\* PDFFileHandler.extract_images(pdf_path, force_render, dpi)
PdfExtractImagesCall ==
    /\ op = "none"
    /\ \E doc \in PdfDocs, exists \in BOOLEAN, libs \in BOOLEAN,
          force_render \in BOOLEAN, renders \in BOOLEAN :
          \E errAt \in 0..Len(doc) :
             /\ op' = "PDFFileHandler.extract_images"
             /\ arg' = [doc |-> doc, exists |-> exists, libs |-> libs,
                        force_render |-> force_render, errAt |-> errAt,
                        renders |-> renders]
             /\ res' = PdfExtractImages(doc, exists, libs, force_render, errAt, renders)
    /\ UNCHANGED <<engineVars, providerVars>>

\* factory.get_handler(path)
GetHandlerCall ==
    /\ op = "none"
    /\ \E suffix \in Suffixes :
          /\ op' = "get_handler"
          /\ arg' = [suffix |-> suffix]
          /\ res' = GetHandler(suffix)
    /\ UNCHANGED <<engineVars, providerVars>>

\* factory.is_multipage_format
IsMultipageFormat(suffix) == Lower(suffix) \in {Note, Pdf}

\* The parameters create_provider declares.
CreateProviderParameters == {"model_spec", "config", "temperature"}

\* The keyword arguments cli/transcribe.py passes to create_provider.
TranscribeFileKeywords ==
    {"model_spec", "config", "temperature", "temperature_was_set"}

\* create_provider(**keywords): a keyword the function does not declare
\* raises TypeError before its body runs; otherwise the provider of the
\* model specification is built, ConfigurationError if its credential is
\* missing.
CreateProvider(keywords, configured) ==
    IF ~(keywords \subseteq CreateProviderParameters) THEN "TypeError"
    ELSE IF ~configured THEN "ConfigurationError"
    ELSE "none"

\* What a run of the handler leaves: its exit status, the exception its
\* outer handler printed, the TranscriptionConfig it built and whether it
\* went on to extract and transcribe.
HandlerEnd(status, error, config, transcribed) ==
    [exit |-> status, error |-> error, config |-> config,
     transcribed |-> transcribed]

\* cli/transcribe.py transcribe_file(args).  Every exception but
\* KeyboardInterrupt raised in the body is printed and ends the run with
\* status 1.
TranscribeFile(a) ==
    LET h == GetHandler(a.suffix)
        is_multipage == IsMultipageFormat(a.suffix)
        ext == Lower(a.suffix)
        made == CreateProvider(TranscribeFileKeywords, a.configured)
        effective == IF ~is_multipage /\ a.batch_size > 1 THEN 1 ELSE a.batch_size
        config == TranscriptionConfigInit(a.temperature,
                                          IF is_multipage THEN a.page_separator ELSE FALSE,
                                          effective)
    IN IF ~a.exists THEN HandlerEnd(1, "File not found", <<>>, FALSE)
       ELSE IF h.raised /= "none" THEN HandlerEnd(1, h.raised, <<>>, FALSE)
       ELSE IF ext /= Note /\ a.pdf THEN HandlerEnd(1, "--pdf", <<>>, FALSE)
       ELSE IF made /= "none" THEN HandlerEnd(1, made, <<>>, FALSE)
       ELSE IF config.raised /= "none" THEN HandlerEnd(1, config.raised, <<>>, FALSE)
       ELSE HandlerEnd(0, "none", config.instance, TRUE)

\* transcribe_file(args) for arguments of every kind.
TranscribeFileCall ==
    /\ op = "none"
    /\ \E suffix \in Suffixes, exists \in BOOLEAN, pdf \in BOOLEAN,
          configured \in BOOLEAN, t \in Temperatures, sep \in BOOLEAN,
          bs \in BatchSizes :
          LET a == [suffix |-> suffix, exists |-> exists, pdf |-> pdf,
                    configured |-> configured, temperature |-> t,
                    page_separator |-> sep, batch_size |-> bs]
          IN /\ op' = "transcribe_file"
             /\ arg' = a
             /\ res' = TranscribeFile(a)
    /\ UNCHANGED <<engineVars, providerVars>>

\* Bound: the length, in tokens, of the responses tried exhaustively.
MaxTextLen == 5

\* The tokens of a response: a fence, the word "markdown", a newline, a
\* space and a word of the page.
ResponseTokens == {FENCE, "markdown", NL, SP, Word(1)}

\* The responses tried: every text of up to MaxTextLen tokens, and longer
\* ones with fences inside the block and newlines after it.
Responses20 ==
    UNION {[1..n -> ResponseTokens] : n \in 0..MaxTextLen}
    \cup {<<FENCE, NL, Word(1), NL, FENCE, NL, Word(2), NL, FENCE>>,
          <<FENCE, "markdown", NL, Word(1), NL, FENCE, NL, Word(2), NL, FENCE, NL>>,
          <<FENCE, NL, Word(1), NL, FENCE, NL, FENCE>>,
          <<FENCE, NL, Word(1), NL, FENCE, NL, NL>>,
          <<FENCE, "markdown", NL, Word(1), NL, NL, Word(2), NL, FENCE>>,
          <<FENCE, "markdown", NL, SP, Word(1), SP, NL, FENCE>>,
          <<Word(1), NL, FENCE, NL, Word(2), NL, FENCE>>}

\* ImageProcessor.strip_markdown_code_blocks(text), as _transcribe_batch and
\* _transcribe_single_page call it on the provider's response.
StripMarkdownCodeBlocksCall ==
    /\ op = "none"
    /\ \E text \in Responses20 :
          /\ op' = "strip_markdown_code_blocks"
          /\ arg' = [text |-> text]
          /\ res' = StripMarkdownCodeBlocks(text)
    /\ UNCHANGED <<engineVars, providerVars>>

\* The keyword arguments cli/note2text.py passes to create_provider.
TranscribeNoteFileKeywords ==
    {"model_spec", "config", "temperature", "temperature_was_set"}

\* cli/note2text.py transcribe_note_file(args), for a notebook of one page
\* and backend calls that succeed.  Every exception but KeyboardInterrupt
\* raised in the body is printed and ends the run with status 1.
TranscribeNoteFile(a) ==
    LET made == CreateProvider(TranscribeNoteFileKeywords, a.configured)
        config == TranscriptionConfigInit(a.temperature, a.page_separator,
                                          a.batch_size)
        x == NoteExtractImages(1, a.exists, TRUE, TRUE)
    IN IF made /= "none" THEN HandlerEnd(1, made, <<>>, FALSE)
       ELSE IF config.raised /= "none" THEN HandlerEnd(1, config.raised, <<>>, FALSE)
       ELSE IF x.raised /= "none" THEN HandlerEnd(1, x.raised, config.instance, FALSE)
       ELSE HandlerEnd(0, "none", config.instance, TRUE)

\* transcribe_note_file(args) for arguments of every kind.
TranscribeNoteFileCall ==
    /\ op = "none"
    /\ \E exists \in BOOLEAN, configured \in BOOLEAN, t \in Temperatures,
          sep \in BOOLEAN, bs \in BatchSizes :
          LET a == [suffix |-> Note, exists |-> exists, pdf |-> FALSE,
                    configured |-> configured, temperature |-> t,
                    page_separator |-> sep, batch_size |-> bs]
          IN /\ op' = "transcribe_note_file"
             /\ arg' = a
             /\ res' = TranscribeNoteFile(a)
    /\ UNCHANGED <<engineVars, providerVars>>

\* A model specification is the sequence of its characters.  A value that
\* may be None is a sequence of length 0 (None) or 1.
Anthropic == <<"a", "n", "t", "h", "r", "o", "p", "i", "c">>
Google    == <<"g", "o", "o", "g", "l", "e">>

\* The names of the shortcuts of parse_model_spec.
Claude       == <<"c", "l", "a", "u", "d", "e">>
ClaudeSonnet == <<"c", "l", "a", "u", "d", "e", "-", "s", "o", "n", "n", "e", "t">>
ClaudeHaiku  == <<"c", "l", "a", "u", "d", "e", "-", "h", "a", "i", "k", "u">>
Gemini       == <<"g", "e", "m", "i", "n", "i">>
GeminiFlash  == <<"g", "e", "m", "i", "n", "i", "-", "f", "l", "a", "s", "h">>
GeminiPro    == <<"g", "e", "m", "i", "n", "i", "-", "p", "r", "o">>
Ollama       == <<"o", "l", "l", "a", "m", "a">>

Gemini3ProPreview   == <<"g", "e", "m", "i", "n", "i", "-", "3", "-", "p", "r", "o", "-", "p", "r", "e", "v", "i", "e", "w">>
Gemini3FlashPreview == <<"g", "e", "m", "i", "n", "i", "-", "3", "-", "f", "l", "a", "s", "h", "-", "p", "r", "e", "v", "i", "e", "w">>

\* What parse_model_spec returns, or the exception it raises.
Parsed(provider_name, model_name, options) ==
    [raised |-> "none", provider |-> provider_name, model |-> model_name,
     options |-> options]

ParseFails == [raised |-> "ConfigurationError", provider |-> <<>>,
               model |-> <<>>, options |-> {}]

\* shortcuts of parse_model_spec
shortcuts ==
    [k \in {Claude, ClaudeSonnet, ClaudeHaiku, Gemini, GeminiFlash, GeminiPro, Ollama} |->
        CASE k = Claude       -> Parsed(Anthropic, <<>>, {<<"use_sonnet", TRUE>>})
          [] k = ClaudeSonnet -> Parsed(Anthropic, <<>>, {<<"use_sonnet", TRUE>>})
          [] k = ClaudeHaiku  -> Parsed(Anthropic, <<>>, {<<"use_sonnet", FALSE>>})
          [] k = Gemini       -> Parsed(Google, <<Gemini3ProPreview>>, {<<"use_pro", TRUE>>})
          [] k = GeminiFlash  -> Parsed(Google, <<Gemini3FlashPreview>>, {<<"use_pro", FALSE>>})
          [] k = GeminiPro    -> Parsed(Google, <<Gemini3ProPreview>>, {<<"use_pro", TRUE>>})
          [] k = Ollama       -> Parsed(Ollama, <<>>, {})]

\* sub in t
Contains(sub, t) ==
    \E x \in 1..(Len(t) - Len(sub) + 1) : SubSeq(t, x, x + Len(sub) - 1) = sub

\* A split at the last colon: str.rsplit(":", 1).
SplitAtLastColon(t) ==
    LET at == CHOOSE x \in 1..Len(t) :
                 t[x] = ":" /\ \A y \in (x + 1)..Len(t) : t[y] /= ":"
    IN <<SubSeq(t, 1, at - 1), SubSeq(t, at + 1, Len(t))>>

\* str.split(":", 1) of a string that holds a colon.
SplitAtFirstColon(t) ==
    LET at == CHOOSE x \in 1..Len(t) :
                 t[x] = ":" /\ \A y \in 1..(x - 1) : t[y] /= ":"
    IN <<SubSeq(t, 1, at - 1), SubSeq(t, at + 1, Len(t))>>

\* providers.parse_model_spec
ParseModelSpec(model_spec) ==
    LET model_spec_lower == Lower(model_spec)
        parts == SplitAtFirstColon(model_spec)
        provider_name == Lower(parts[1])
        model_name == IF parts[2] /= <<>> THEN <<parts[2]>> ELSE <<>>
        options ==
            IF provider_name = Anthropic THEN {<<"use_sonnet", TRUE>>}
            ELSE IF provider_name = Google
            THEN {<<"use_pro", Contains(<<"p", "r", "o">>, Lower(parts[2]))>>}
            ELSE {}
    IN IF model_spec_lower \in DOMAIN shortcuts THEN shortcuts[model_spec_lower]
       ELSE IF Contains(<<":">>, model_spec)
       THEN IF provider_name \notin {Anthropic, Google, Ollama}
            THEN ParseFails
            ELSE Parsed(provider_name, model_name, options)
       ELSE ParseFails

\* The spellings of the part before the colon that are tried, and of names
\* without a colon.
SpecHeads ==
    {Anthropic, Google, Ollama, Claude, ClaudeSonnet, ClaudeHaiku, Gemini,
     GeminiFlash, GeminiPro,
     <<"A", "N", "T", "H", "R", "O", "P", "I", "C">>, <<"G", "o", "o", "g", "l", "e">>, <<"O", "L", "L", "A", "M", "A">>, <<"C", "l", "a", "u", "d", "e">>, <<"C", "L", "A", "U", "D", "E", "-", "H", "A", "I", "K", "U">>, <<"G", "e", "m", "i", "n", "i", "-", "F", "l", "a", "s", "h">>,
     <<"o", "p", "e", "n", "a", "i">>, <<"c", "l", "a", "u", "d">>, <<"c", "l", "a", "u", "d", "e", " ">>, <<"x">>, <<>>}

\* The parts after the first colon that are tried.
SpecModels ==
    {<<>>, <<"m">>, <<"M">>, <<"q", "w", "e", "n", "2", ".", "5", "-", "v", "l", ":", "7", "b">>, <<"Q", "w", "e", "n", ":", "7", "B">>, <<"g", "e", "m", "i", "n", "i", "-", "2", ".", "5", "-", "p", "r", "o">>, <<"G", "e", "m", "i", "n", "i", "-", "P", "R", "O">>, <<":">>}

\* The model specifications tried: a head alone, or a head, a colon and a
\* model part.
ModelSpecs ==
    SpecHeads \cup {h \o <<":">> \o m : h \in SpecHeads, m \in SpecModels}

\* parse_model_spec(model_spec)
ParseModelSpecCall ==
    /\ op = "none"
    /\ \E model_spec \in ModelSpecs :
          /\ op' = "parse_model_spec"
          /\ arg' = [model_spec |-> model_spec]
          /\ res' = ParseModelSpec(model_spec)
    /\ UNCHANGED <<engineVars, providerVars>>

\* Bound: the length, in characters, of the texts handed to
\* strip_markdown_formatting.
MaxMarkdownLen == 5

\* The characters of those texts: a letter, the three delimiter characters
\* and the newline.
MarkdownChars == {"a", "*", "_", "=", NL}

\* The delimiter d stands in t at position x.
DelimiterAt(t, x, d) ==
    x + Len(d) - 1 <= Len(t) /\ SubSeq(t, x, x + Len(d) - 1) = d

\* For a delimiter that opens at x: where the lazy group (.*?) lets the
\* back-reference match, that is the first position after the opening
\* delimiter where the same delimiter stands again with no newline in
\* between ("." does not match a newline); 0 if there is none.
ClosingAt(t, x, d) ==
    LET ys == {y \in (x + Len(d))..Len(t) :
                  /\ DelimiterAt(t, y, d)
                  /\ \A z \in (x + Len(d))..(y - 1) : t[z] /= NL}
    IN IF ys = {} THEN 0 ELSE CHOOSE y \in ys : \A z \in ys : y <= z

\* re.sub(r"(d1|d2|..)(.*?)\1", r"\2", t) from position x on: the leftmost
\* match is replaced by its group 2 and the scan goes on after the match.
RECURSIVE ReSubFrom(_, _, _)
ReSubFrom(t, x, delimiters) ==
    IF x > Len(t) THEN <<>>
    ELSE LET open == {k \in 1..Len(delimiters) :
                         /\ DelimiterAt(t, x, delimiters[k])
                         /\ ClosingAt(t, x, delimiters[k]) > 0}
         IN IF open = {}
            THEN <<t[x]>> \o ReSubFrom(t, x + 1, delimiters)
            ELSE LET d == delimiters[CHOOSE k \in open : \A j \in open : k <= j]
                     y == ClosingAt(t, x, d)
                 IN SubSeq(t, x + Len(d), y - 1)
                    \o ReSubFrom(t, y + Len(d), delimiters)

\* ImageProcessor.strip_markdown_formatting: highlight, then bold, then
\* italic.
StripMarkdownFormatting(t) ==
    LET highlight == ReSubFrom(t, 1, <<(<<"=", "=">>)>>)
        bold      == ReSubFrom(highlight, 1, <<(<<"*", "*">>), (<<"_", "_">>)>>)
    IN ReSubFrom(bold, 1, <<(<<"*">>), (<<"_">>)>>)

\* strip_markdown_formatting(text), and again on its result.
StripMarkdownFormattingCall ==
    /\ op = "none"
    /\ \E n \in 0..MaxMarkdownLen : \E text \in [1..n -> MarkdownChars] :
          /\ op' = "strip_markdown_formatting"
          /\ arg' = [text |-> text]
          /\ res' = [once  |-> StripMarkdownFormatting(text),
                     twice |-> StripMarkdownFormatting(StripMarkdownFormatting(text))]
    /\ UNCHANGED <<engineVars, providerVars>>

\* PDFImageExtractor.extract_images_from_pdf of src/script2text.py: as
\* extract_embedded_images, but the except clause empties the list.
ExtractImagesFromPdf(doc, errAt) ==
    IF errAt = 0 THEN EmbeddedFrom(doc, 1, Len(doc)) ELSE <<>>

\* PDFImageExtractor.get_pdf_images of src/script2text.py: a rendering that
\* fails re-raises the error of the renderer.
GetPdfImages(doc, force_render, errAt, renders) ==
    LET e == ExtractImagesFromPdf(doc, errAt)
    IN IF ~force_render /\ e /= <<>>
       THEN [raised |-> "none", path |-> "embedded", images |-> e]
       ELSE IF ~renders
       THEN [raised |-> "Exception", path |-> "none", images |-> <<>>]
       ELSE [raised |-> "none", path |-> "rendered",
             images |-> [p \in 1..Len(doc) |-> PageImage(p, 0)]]

\* PDFImageExtractor.get_pdf_images(pdf_path, force_render, dpi)
GetPdfImagesCall ==
    /\ op = "none"
    /\ \E doc \in PdfDocs, force_render \in BOOLEAN, renders \in BOOLEAN :
          \E errAt \in 0..Len(doc) :
             /\ op' = "PDFImageExtractor.get_pdf_images"
             /\ arg' = [doc |-> doc, exists |-> TRUE, libs |-> TRUE,
                        force_render |-> force_render, errAt |-> errAt,
                        renders |-> renders]
             /\ res' = GetPdfImages(doc, force_render, errAt, renders)
    /\ UNCHANGED <<engineVars, providerVars>>

NextUnits ==
    \/ NewTranscriptionConfig
    \/ GetPdfImagesCall
    \/ StripMarkdownFormattingCall
    \/ ParseModelSpecCall
    \/ TranscribeNoteFileCall
    \/ StripMarkdownCodeBlocksCall
    \/ TranscribeFileCall
    \/ GetHandlerCall
    \/ FactoryExtractImagesCall
    \/ PdfExtractImagesCall

SpecUnits == InitUnits /\ [][NextUnits]_vars

----------------------------------------------------------------------------
\* Properties

CeilDiv(n, k) == (n + k - 1) \div k

Last(q) == q[Len(q)]

\* C1: the groups processed so far are contiguous runs of pages, each
\* starting right after the previous one (the first at page 1), each of
\* exactly batch_size pages unless it ends at the last page; a finished run
\* has processed ceil(N / batch_size) groups and the last one ends at page N.
C1_GroupsPartitionPages ==
    /\ \A j \in 1..Len(blocks) :
          LET g == blocks[j].page_nums
          IN /\ Len(g) >= 1
             /\ g[1] = IF j = 1 THEN 1 ELSE Last(blocks[j - 1].page_nums) + 1
             /\ \A m \in 1..Len(g) : g[m] = g[1] + m - 1
             /\ Len(g) <= batch_size
             /\ Len(g) = batch_size \/ Last(g) = Len(images)
             /\ Last(g) <= Len(images)
    /\ pc = "done" =>
          /\ Len(blocks) = CeilDiv(Len(images), batch_size)
          /\ Last(Last(blocks).page_nums) = Len(images)

\* A finished run of three groups, the last one shorter than batch_size.
C1_Witness ==
    /\ pc = "done"
    /\ Len(images) = 5
    /\ batch_size = 2
    /\ Len(blocks) = 3
    /\ Len(blocks[3].page_nums) = 1

PagesOf(page_nums) == {page_nums[j] : j \in 1..Len(page_nums)}

\* The second of two runs with the same batch size and the same sink mode.
SameConfigTwice ==
    prev.ran /\ prev.batch_size = batch_size /\ prev.output = output

\* C2: a fallback request is a single-image request for a page of the group
\* whose first attempt failed, and the request after a group's last fallback
\* request belongs to the next group; and in two runs over the same images,
\* backend and configuration, the groups come in the same order and every
\* group that took the same path in both runs (whatever happened to the
\* other groups) emitted the same block.
C2_BatchFailureIsLocal ==
    /\ \A x \in 1..Len(calls) :
          calls[x].path = "fallback" =>
             /\ Len(calls[x].pages) = 1
             /\ calls[x].pages[1] \in PagesOf(calls[x].group)
             /\ \E y \in 1..(x - 1) :
                   /\ calls[y].group = calls[x].group
                   /\ calls[y].path = "first"
                   /\ ~calls[y].ok
             /\ (x < Len(calls) /\ calls[x + 1].path /= "fallback") =>
                   calls[x + 1].group[1] = Last(calls[x].group) + 1
    /\ SameConfigTwice =>
          \A j \in 1..Min(Len(blocks), Len(prev.blocks)) :
             /\ blocks[j].page_nums = prev.blocks[j].page_nums
             /\ blocks[j].path = prev.blocks[j].path =>
                   blocks[j].text = prev.blocks[j].text

\* Two finished runs: the batch call of the first group succeeded in the
\* first run and failed in the second, and a later group was emitted.
C2_Witness ==
    /\ SameConfigTwice
    /\ pc = "done"
    /\ Len(blocks) >= 2
    /\ Len(blocks[1].page_nums) > 1
    /\ prev.blocks[1].path = "first"
    /\ blocks[1].path = "fallback"
    /\ blocks[2].path = prev.blocks[2].path

\* The pages of the fallback requests made for the group page_nums, in the
\* order of the requests.
FallbackPages(page_nums) ==
    LET rs == SelectSeq(calls, LAMBDA r : r.path = "fallback" /\ r.group = page_nums)
    IN [x \in 1..Len(rs) |-> rs[x].pages[1]]

\* C3 as stated: the result of a group whose batch call failed is the
\* answers of transcribe_image for its pages, joined by a blank line.
C3_FallbackJoinsAnswers ==
    \A j \in 1..Len(blocks) :
       (blocks[j].path = "fallback" /\ Len(blocks[j].page_nums) > 1) =>
          blocks[j].result =
             JoinBlank([m \in 1..Len(blocks[j].page_nums) |->
                 PageAnswer(blocks[j].page_nums[m], pageText[blocks[j].page_nums[m]])])

\* C3, amended: the result of a group that fell back is, for exactly the
\* pages of the group in page order, the answer of transcribe_image with a
\* wrapping code fence removed and then stripped of surrounding whitespace,
\* joined by a blank line; the fallback requests were for those pages in
\* that order, once each; and the loop variable has moved to the next group.
C3_FallbackJoinsCleanedAnswers ==
    /\ \A j \in 1..Len(blocks) :
          blocks[j].path = "fallback" =>
             /\ blocks[j].result =
                   JoinBlank([m \in 1..Len(blocks[j].page_nums) |->
                       Strip(StripMarkdownCodeBlocks(
                           PageAnswer(blocks[j].page_nums[m],
                                      pageText[blocks[j].page_nums[m]])))])
             /\ FallbackPages(blocks[j].page_nums) = blocks[j].page_nums
    /\ batch_size > 1 => batch_start = Len(blocks) * batch_size

\* A group of several pages fell back, one of its answers came with
\* surrounding whitespace, and the next group was emitted after it.
C3_Witness ==
    \E j \in 1..Len(blocks) :
       /\ blocks[j].path = "fallback"
       /\ Len(blocks[j].page_nums) > 1
       /\ pageText[blocks[j].page_nums[1]] = "padded"
       /\ j < Len(blocks)

\* C4: a failed fallback request is the last backend request of the run:
\* the run has raised, nothing was returned, and the group of the failed
\* page emitted no block.
C4_FallbackFailureEscalates ==
    \A x \in 1..Len(calls) :
       (calls[x].path = "fallback" /\ ~calls[x].ok) =>
          /\ x = Len(calls)
          /\ pc = "raised"
          /\ ret = <<>>
          /\ \A j \in 1..Len(blocks) : blocks[j].page_nums /= calls[x].group

\* A fallback request failed while its group had pages left and a later
\* group was waiting.
C4_Witness ==
    /\ pc = "raised"
    /\ calls /= <<>>
    /\ Last(calls).path = "fallback"
    /\ ~Last(calls).ok
    /\ Last(calls).pages[1] < Last(Last(calls).group)
    /\ Last(Last(calls).group) < Len(images)

\* Both runs finished and every group took the same path in both, so that
\* the backend gave the same responses.
SameResponsesTwice ==
    /\ prev.ran
    /\ pc = "done"
    /\ Len(prev.blocks) = Len(blocks)
    /\ \A j \in 1..Len(blocks) : prev.blocks[j].path = blocks[j].path

\* C5: for the same images, batch size and backend responses, the string
\* returned in string mode and the text written in stream mode are equal.
C5_SinkModesAgree ==
    (SameResponsesTwice /\ prev.batch_size = batch_size /\ prev.output /= output) =>
       prev.document = Document

\* The first index >= from at which sub occurs in t, 0 if there is none.
FirstAt(sub, t, from) ==
    LET at == {x \in from..(Len(t) - Len(sub) + 1) :
                  SubSeq(t, x, x + Len(sub) - 1) = sub}
    IN IF at = {} THEN 0 ELSE CHOOSE x \in at : \A y \in at : x <= y

\* The marker line of block j followed by the block.
MarkedBlock(j) == <<PageMarker(blocks[j].page_nums), NL>> \o blocks[j].text

RECURSIVE MarkedBlocksFrom(_, _)
MarkedBlocksFrom(j, from) ==
    IF j > Len(blocks) THEN TRUE
    ELSE LET x == FirstAt(MarkedBlock(j), Document, from)
         IN x > 0 /\ MarkedBlocksFrom(j + 1, x + Len(MarkedBlock(j)))

\* C6: with page_separator set and more than one page, the finished document
\* holds, for every group in order, the group's marker line immediately
\* followed by the group's block.
C6_EveryBlockHasItsMarker ==
    (pc = "done" /\ page_separator /\ Len(images) > 1) => MarkedBlocksFrom(1, 1)

\* What precedes block j in the document besides the blank line.
Lead(j) ==
    IF output = "stream" /\ page_separator
    THEN <<PageMarker(blocks[j].page_nums), NL>>
    ELSE <<>>

\* The blocks emitted so far, each with its lead, a blank line between two.
Emitted == JoinBlank([j \in 1..Len(blocks) |-> Lead(j) \o blocks[j].text])

\* C7: the document is the emitted blocks (each with its marker line, if
\* any) with exactly "\n\n" between two consecutive ones and nothing before
\* the first; no block starts or ends with whitespace, so that the "\n\n" is
\* one blank line; the document does not start with whitespace.
C7_OneBlankLineBetweenBlocks ==
    /\ \A j \in 1..Len(blocks) :
          blocks[j].text /= <<>> =>
             /\ Head(blocks[j].text) \notin Whitespace
             /\ Last(blocks[j].text) \notin Whitespace
    /\ output = "stream" =>
          sink = Emitted \o (IF pc = "done" THEN <<NL>> ELSE <<>>)
    /\ (output = "None" /\ pc = "done") => ret = Emitted
    /\ Document /= <<>> => Document[1] \notin Whitespace

\* A finished stream of several blocks with markers, one of them from an
\* answer that came with surrounding whitespace.
C7_Witness ==
    /\ pc = "done"
    /\ output = "stream"
    /\ page_separator
    /\ Len(blocks) >= 3
    /\ \E j \in 2..Len(blocks) : blocks[j].result /= blocks[j].text

\* C8: every block emitted is its group's result stripped, and the finished
\* document ends with exactly one newline.
C8_StrippedBlocksOneFinalNewline ==
    /\ \A j \in 1..Len(blocks) : blocks[j].text = Strip(blocks[j].result)
    /\ pc = "done" =>
          /\ Document /= <<>>
          /\ Last(Document) = NL
          /\ Len(Document) >= 2 => Document[Len(Document) - 1] /= NL

\* The second of two finished runs with the same sink mode, one with batch
\* size 1 and one with batch size len(images).
BatchSizesOneAndAll ==
    /\ prev.ran
    /\ pc = "done"
    /\ prev.output = output
    /\ prev.batch_size /= batch_size
    /\ {prev.batch_size, batch_size} = {1, Len(images)}

AllMarkers ==
    {PageMarker(BatchPageNums(g[1] - 1, g[2])) :
        g \in {h \in (1..Len(images)) \X (1..Len(images)) : h[1] <= h[2]}}

\* The text without its separator marker lines.
RECURSIVE RemoveMarkers(_)
RemoveMarkers(t) ==
    IF t = <<>> THEN <<>>
    ELSE IF Head(t) \in AllMarkers /\ Len(t) >= 2 /\ t[2] = NL
    THEN RemoveMarkers(Tail(Tail(t)))
    ELSE <<Head(t)>> \o RemoveMarkers(Tail(t))

\* The page words of the text are those of pages 1..N, in page order.
InPageOrder(t) ==
    SelectSeq(t, LAMBDA tok : tok \in {Word(p) : p \in 1..Len(images)})
       = [p \in 1..Len(images) |-> Word(p)]

\* C9 as stated: the documents of a run with batch size 1 and of a run with
\* batch size N over the same images and backend are equal once the marker
\* lines are removed, and both have the page texts in page order.
C9_BatchSizeInvariant ==
    BatchSizesOneAndAll =>
       /\ RemoveMarkers(prev.document) = RemoveMarkers(Document)
       /\ InPageOrder(prev.document)
       /\ InPageOrder(Document)

\* C9, amended: both documents have the page texts in page order; they are
\* equal once the marker lines are removed when the backend's answer for
\* every page has neither surrounding whitespace nor a code fence (and its
\* answer to several images is its answers for each joined by a blank line).
C9_BatchSizeInvariantForCleanAnswers ==
    BatchSizesOneAndAll =>
       /\ InPageOrder(prev.document)
       /\ InPageOrder(Document)
       /\ (\A p \in 1..Len(images) : pageText[p] = "plain") =>
             RemoveMarkers(prev.document) = RemoveMarkers(Document)

\* Three pages with clean answers streamed with markers, page by page in
\* one run and as one batch in the other.
C9_Witness ==
    /\ BatchSizesOneAndAll
    /\ Len(images) = 3
    /\ output = "stream"
    /\ page_separator
    /\ \A p \in 1..Len(images) : pageText[p] = "plain"
    /\ batch_size = 3
    /\ blocks[1].path = "first"

\* C10: a first attempt on a group of several images issues exactly one
\* backend request, and the request carries the group's images in order.
C10_BatchIsOneRequest ==
    \A x \in 1..Len(calls) :
       (calls[x].path = "first" /\ Len(calls[x].group) > 1) =>
          /\ calls[x].pages = calls[x].group
          /\ \A y \in 1..Len(calls) :
                (calls[y].path = "first" /\ calls[y].group = calls[x].group) => y = x

\* C11 as stated: when a response to an adapter method carried a stop reason
\* other than normal completion, the call raised ProviderAPIError and the
\* message names the reason; nothing was returned.
C11_AbnormalStopRaises ==
    \A j \in 1..Len(last.reasons) :
       (/\ last.method \in {"transcribe_image", "transcribe_images_batch"}
        /\ last.reasons[j] \notin NormalCompletion) =>
          /\ last.outcome = "ProviderAPIError"
          /\ last.names = last.reasons[j]
          /\ last.text = <<>>

\* C12 as stated: a call in which the encoding of the image, the transport
\* or the reading of the response failed ended in ProviderAPIError; no call
\* ends in another exception, and no text returned is an error message.
C12_FailuresRaiseProviderAPIError ==
    /\ last.failure /= "none" => last.outcome = "ProviderAPIError"
    /\ last.outcome \in {"none", "returned", "ProviderAPIError"}
    /\ \A j \in 1..Len(last.text) :
          last.text[j] \notin {ErrorText(b) : b \in ScriptBackends}

\* The credential of the adapter class is there: the API key of a cloud
\* backend, a reachable server for Ollama.
CredentialPresent ==
    IF provider = "ollama" THEN endpoint /= "down" ELSE api_key

\* C13 as stated: without its credential (and with a valid temperature) the
\* constructor raises ProviderNotAvailableError, and no backend request is
\* ever issued through the adapter.
C13_MissingCredentialFailsConstruction ==
    (~CredentialPresent /\ TemperatureValid(temperature)) =>
       /\ constructed \in {"no", "ProviderNotAvailableError"}
       /\ requests = 0

\* C14 as stated: a TranscriptionConfig whose temperature is outside
\* [0.0, 2.0] or whose batch_size is below 1 raises ConfigurationError, and
\* an instance never holds a value out of range or other than the argument.
C14_InvalidConfigRaisesConfigurationError ==
    op = "TranscriptionConfig" =>
       /\ (~TemperatureValid(arg.temperature) \/ arg.batch_size < 1) =>
             /\ res.raised = "ConfigurationError"
             /\ res.instance = <<>>
       /\ \A j \in 1..Len(res.instance) :
             /\ TemperatureValid(res.instance[j].temperature)
             /\ res.instance[j].batch_size >= 1
             /\ res.instance[j].temperature = arg.temperature
             /\ res.instance[j].batch_size = arg.batch_size

\* Some image of the list has width 0 or height 0.
SomeImageEmpty == \E j \in 1..Len(sizes) : sizes[j][1] = 0 \/ sizes[j][2] = 0

\* C15 as stated: when some image has width 0 or height 0, wherever it sits,
\* transcribe_images raises ImageProcessingError, no backend request is ever
\* issued and nothing is written or returned.
C15_EmptyImageRaisesImageProcessingError ==
    SomeImageEmpty =>
       /\ calls = <<>>
       /\ sink = <<>>
       /\ ret = <<>>
       /\ pc \in {"start", "raised"}
       /\ pc = "raised" => raised = "ImageProcessingError"

\* Two suffixes are equal up to the case of their letters.
SameIgnoringCase(a, b) ==
    /\ Len(a) = Len(b)
    /\ \A k \in 1..Len(a) :
          \/ a[k] = b[k]
          \/ \E m \in 1..Len(UpperCase) : {a[k], b[k]} = {UpperCase[m], LowerCase[m]}

\* The strategy the claim gives a suffix, "none" for every other suffix.
StrategyOf(suffix) ==
    IF SameIgnoringCase(suffix, Note) THEN "NoteFileHandler"
    ELSE IF SameIgnoringCase(suffix, Pdf) THEN "PDFFileHandler"
    ELSE IF \E e \in {Png, Jpg, Jpeg, Webp} : SameIgnoringCase(suffix, e)
    THEN "ImageFileHandler"
    ELSE "none"

\* C17: get_handler and extract_images pick the handler from the suffix
\* alone, whatever the case of its letters and whatever the file holds; for
\* any other suffix they raise FileFormatError, the message names the suffix
\* and the six supported ones, and no handler's extraction was called.
C17_DispatchByExtension ==
    op \in {"get_handler", "extract_images"} =>
       IF StrategyOf(arg.suffix) /= "none"
       THEN /\ res.handler = StrategyOf(arg.suffix)
            /\ op = "get_handler" => res.raised = "none"
            /\ op = "extract_images" => res.attempted = StrategyOf(arg.suffix)
       ELSE /\ res.raised = "FileFormatError"
            /\ SameIgnoringCase(res.message.ext, arg.suffix)
            /\ {res.message.supported[k] : k \in 1..Len(res.message.supported)}
                  = {Note, Pdf, Png, Jpg, Jpeg, Webp}
            /\ res.handler = "none"
            /\ op = "extract_images" => (res.attempted = "none" /\ res.images = <<>>)

\* extract_images picked the PDF handler for a file named .PDF in capitals.
C17_Witness ==
    /\ op = "extract_images"
    /\ arg.suffix = <<".", "P", "D", "F">>
    /\ res.attempted = "PDFFileHandler"
    /\ res.raised = "none"

\* The embedded images of the document that can be opened and have both
\* sides above 100, on pages p..upto, in document order.
RECURSIVE PassingFrom(_, _, _)
PassingFrom(doc, p, upto) ==
    IF p > upto THEN <<>>
    ELSE SelectSeq([k \in 1..Len(doc[p]) |-> [page |-> p, index |-> k]],
                   LAMBDA x : /\ doc[p][x.index].opens
                              /\ doc[p][x.index].width >= 101
                              /\ doc[p][x.index].height >= 101)
         \o PassingFrom(doc, p + 1, upto)

C19_OneImagePerPdfPage ==
    (op = "PDFFileHandler.extract_images" /\ res.raised = "none") =>
       /\ Len(res.images) = Len(arg.doc)
       /\ \A p \in 1..Len(res.images) : res.images[p].page = p

\* C16: when the unified transcribe handler is run on an existing
\* single-image file (.png, .jpg, .jpeg, .webp) with a batch size above 1
\* and no option in error, it ends without an error, having built a
\* transcription configuration of batch size 1 without page separators.
C16_SingleImageIgnoresPageOptions ==
    (/\ op = "transcribe_file"
     /\ arg.exists
     /\ Lower(arg.suffix) \in {Png, Jpg, Jpeg, Webp}
     /\ ~arg.pdf
     /\ arg.configured
     /\ TemperatureValid(arg.temperature)
     /\ arg.batch_size > 1)
    => /\ res.exit = 0
       /\ res.config /= <<>>
       /\ res.config[1].batch_size = 1
       /\ res.config[1].page_separator = FALSE

\* The text without the newline that ends its last line, if there is one.
WithoutFinalNewline(t) ==
    IF t /= <<>> /\ t[Len(t)] = NL THEN SubSeq(t, 1, Len(t) - 1) ELSE t

\* The positions of the newlines of a text.
NewlinesOf(t) == {k \in 1..Len(t) : t[k] = NL}

FirstNewline(t) == CHOOSE k \in NewlinesOf(t) : \A j \in NewlinesOf(t) : k <= j

LastNewline(t) == CHOOSE k \in NewlinesOf(t) : \A j \in NewlinesOf(t) : j <= k

\* A response wrapped as a whole: its first line is a fence or a fence and
\* "markdown", its last line, another line, is a fence.
WrappedAsAWhole(t) ==
    LET u == WithoutFinalNewline(t)
    IN /\ NewlinesOf(u) /= {}
       /\ SubSeq(u, 1, FirstNewline(u) - 1) \in {<<FENCE>>, <<FENCE, "markdown">>}
       /\ SubSeq(u, LastNewline(u) + 1, Len(u)) = <<FENCE>>

\* The lines between the two fence lines.
InnerContent(t) ==
    LET u == WithoutFinalNewline(t)
    IN SubSeq(u, FirstNewline(u) + 1, LastNewline(u) - 1)

\* C20: the text strip_markdown_code_blocks returns for a response wrapped
\* as a whole in a fenced block is the content between the two fence lines,
\* and a response that is not wrapped as a whole is returned unchanged.
C20_WholeFenceStripped ==
    op = "strip_markdown_code_blocks"
    => res = IF WrappedAsAWhole(arg.text) THEN InnerContent(arg.text) ELSE arg.text

\* The backend requests of this run issued for the group page_nums.
CallsFor(page_nums) == {k \in 1..Len(calls) : calls[k].group = page_nums}

\* C25: for a group of exactly one image at most one provider call is
\* issued, in batching mode as in single-page mode: a failed call for a
\* one-image group is not followed by a fallback call.
C25_OneImageGroupOneCall ==
    \A p \in DOMAIN images : Cardinality(CallsFor(<<p>>)) <= 1

\* The backend's answer for page p of this run.
AnswerOf(p) == PageAnswer(p, pageText[p])

\* The response to one request for the group page_nums: the answers for
\* its pages, joined by a blank line.
ResponseFor(page_nums) ==
    JoinBlank([m \in 1..Len(page_nums) |-> AnswerOf(page_nums[m])])

\* C26 as stated: the result of every group is strip_markdown_code_blocks
\* applied once to the group's text as a whole, which on the fallback path
\* is the stripped per-page answers joined by a blank line.
C26_StrippedOnceAsAWhole ==
    \A j \in 1..Len(blocks) :
       blocks[j].result =
          StripMarkdownCodeBlocks(
             IF blocks[j].path = "fallback"
             THEN JoinBlank([m \in 1..Len(blocks[j].page_nums) |->
                                Strip(AnswerOf(blocks[j].page_nums[m]))])
             ELSE ResponseFor(blocks[j].page_nums))

\* C26, amended: strip_markdown_code_blocks is applied once to each provider
\* response as a whole: the result of a group that came from a direct
\* single-page call or from a batch call is the response with its wrapping
\* fence removed; the result of a group that fell back is the per-page
\* responses, each with its own wrapping fence removed and stripped of
\* surrounding whitespace, joined by a blank line, and nothing is removed
\* from the joined text.
C26_StrippedOncePerResponse ==
    \A j \in 1..Len(blocks) :
       blocks[j].result =
          IF blocks[j].path = "fallback"
          THEN JoinBlank([m \in 1..Len(blocks[j].page_nums) |->
                  Strip(StripMarkdownCodeBlocks(AnswerOf(blocks[j].page_nums[m])))])
          ELSE StripMarkdownCodeBlocks(ResponseFor(blocks[j].page_nums))

\* A run emitted a group of several pages from a batch call and a group of
\* several pages from the fallback path, each with a fenced answer for its
\* first and last page, and a single page whose answer was fenced.
C26_Witness ==
    /\ \E j \in 1..Len(blocks) :
          /\ blocks[j].path = "fallback"
          /\ Len(blocks[j].page_nums) > 1
          /\ pageText[blocks[j].page_nums[1]] = "fenced"
          /\ pageText[Last(blocks[j].page_nums)] = "fenced"
    /\ \E j \in 1..Len(blocks) :
          /\ blocks[j].path = "first"
          /\ Len(blocks[j].page_nums) > 1
          /\ pageText[blocks[j].page_nums[1]] = "fenced"
          /\ pageText[Last(blocks[j].page_nums)] = "fenced"
    /\ \E j \in 1..Len(blocks) :
          /\ Len(blocks[j].page_nums) = 1
          /\ pageText[blocks[j].page_nums[1]] = "fenced"

\* C27: a backend request carries the batch prompt, which names the number
\* of images of its group, exactly when it was issued through
\* transcribe_images_batch on the first attempt of a group of more than one
\* image; every request issued through transcribe_image, for a one-image
\* group, in single-page mode or on the fallback path, carries the base
\* prompt.
C27_BatchPromptOnlyForBatches ==
    \A k \in 1..Len(calls) :
       calls[k].prompt =
          IF calls[k].path = "first" /\ Len(calls[k].group) > 1
          THEN <<"batch instruction", ToString(Len(calls[k].group)), "base prompt">>
          ELSE <<"base prompt">>

\* A run in batching mode sent a batch request for a group of several
\* images, a fallback request, and a direct request for a group of one
\* image.
C27_Witness ==
    /\ batch_size > 1
    /\ \E k \in 1..Len(calls) :
          calls[k].path = "first" /\ Len(calls[k].group) > 1
    /\ \E k \in 1..Len(calls) : calls[k].path = "fallback"
    /\ \E k \in 1..Len(calls) :
          calls[k].path = "first" /\ Len(calls[k].group) = 1

\* The groups for which a first attempt was made.
GroupsAttempted ==
    {calls[k].group : k \in {k \in 1..Len(calls) : calls[k].path \in {"single", "first"}}}

\* The positions in calls of the fallback requests.
FallbackCalls == {k \in 1..Len(calls) : calls[k].path = "fallback"}

\* The calls made so far stay within the claimed bounds: at most
\* ceil(N / batch_size) groups were attempted and no first-attempt request
\* was issued twice; at most N fallback requests were issued, each for one
\* image, and no page was submitted on the fallback path twice.
CallsWithinBounds ==
    /\ Cardinality(GroupsAttempted) <= CeilDiv(Len(images), batch_size)
    /\ \A k1, k2 \in 1..Len(calls) :
          (/\ k1 /= k2
           /\ calls[k1].path \in {"single", "first"}
           /\ calls[k2].path \in {"single", "first"})
          => calls[k1].pages /= calls[k2].pages
    /\ Cardinality(FallbackCalls) <= Len(images)
    /\ \A k \in FallbackCalls : Len(calls[k].pages) = 1
    /\ \A k1, k2 \in FallbackCalls : k1 /= k2 => calls[k1].pages /= calls[k2].pages

\* C29: for every number of pages, batch size and pattern of provider
\* failures, transcribe_images ends, with a result or with an escalated
\* error, having made at most ceil(N / batch_size) first attempts and at
\* most N fallback calls, none for a page it had already submitted on the
\* fallback path (calls are only ever added, so the bounds held throughout).
C29_TerminatesWithinBounds ==
    <>(pc \in {"done", "raised"} /\ CallsWithinBounds)

\* A run in batching mode ended after every group had failed its first
\* attempt and every page had been submitted on the fallback path.
C29_Witness ==
    /\ pc = "done"
    /\ batch_size > 1
    /\ Len(images) > batch_size
    /\ Cardinality(GroupsAttempted) = CeilDiv(Len(images), batch_size)
    /\ Cardinality(FallbackCalls) = Len(images)

\* The pages of the blocks emitted, in the order of emission.
RECURSIVE PagesEmitted(_)
PagesEmitted(j) ==
    IF j = 0 THEN <<>> ELSE PagesEmitted(j - 1) \o blocks[j].page_nums

\* The blocks emitted are those of the groups before the group of call k,
\* in order: their pages are 1 .. p-1 for p the first page of that group.
BlocksUpTo(k) ==
    PagesEmitted(Len(blocks)) = [p \in 1..(calls[k].group[1] - 1) |-> p]

\* C22: once a KeyboardInterrupt has cut a provider call short, that call is
\* the last one of the run (no fallback call, no call for a later group),
\* the run has stopped, the sink holds the blocks of the groups before it,
\* all of them flushed, and the handler ends with status 1.
C22_InterruptStopsRun ==
    raised = "KeyboardInterrupt" =>
       /\ pc = "raised"
       /\ interrupted = Len(calls)
       /\ BlocksUpTo(interrupted)
       /\ sink = Emitted
       /\ flushed = sink
       /\ exit \in {-1, 1}

\* The first attempt on a group of several images was interrupted after
\* earlier groups had been written and with a later group waiting, and the
\* handler has exited.
C22_Witness ==
    /\ raised = "KeyboardInterrupt"
    /\ calls[interrupted].path = "first"
    /\ Len(calls[interrupted].group) > 1
    /\ Last(calls[interrupted].group) < Len(images)
    /\ blocks /= <<>>
    /\ closed
    /\ exit = 1

\* C28: in stream mode, once a provider failure in group G has been
\* escalated, the sink holds exactly the blocks of the groups before G, in
\* order, each with its marker line if any, a blank line between two and
\* nothing after the last; all of it has been flushed; and it stays so when
\* the file is closed and the handler exits with status 1.
C28_AbortLeavesCompleteBlocks ==
    (output = "stream" /\ raised = "from provider") =>
       /\ pc = "raised"
       /\ ~Last(calls).ok
       /\ BlocksUpTo(Len(calls))
       /\ sink = Emitted
       /\ flushed = sink
       /\ exit \in {-1, 1}

\* A fallback call failed in the third group or later, with markers on, and
\* the file has been closed and the handler has exited.
C28_Witness ==
    /\ output = "stream"
    /\ raised = "from provider"
    /\ page_separator
    /\ Len(blocks) >= 2
    /\ Last(calls).path = "fallback"
    /\ closed
    /\ exit = 1

\* C23: a CLI transcription handler that is given an existing input file of
\* a supported format, an available provider and valid options, and whose
\* backend calls all succeed, transcribes the file and ends with status 0.
C23_SuccessExitsZero ==
    (/\ op \in {"transcribe_note_file", "transcribe_file"}
     /\ arg.exists
     /\ Lower(arg.suffix) \in DOMAIN SUPPORTED_EXTENSIONS
     /\ ~arg.pdf
     /\ arg.configured
     /\ TemperatureValid(arg.temperature)
     /\ arg.batch_size >= 1)
    => /\ res.exit = 0
       /\ res.transcribed

\* The position of the first colon of a specification that holds one.
FirstColon(t) == CHOOSE x \in 1..Len(t) : t[x] = ":" /\ \A y \in 1..(x - 1) : t[y] /= ":"

\* The explicit form: a colon, and before the first colon one of the three
\* provider names in any case.
ExplicitForm(t) ==
    /\ \E x \in 1..Len(t) : t[x] = ":"
    /\ Lower(SubSeq(t, 1, FirstColon(t) - 1)) \in {Anthropic, Google, Ollama}

\* The part after the first colon, as it was written.
ModelPart(t) == SubSeq(t, FirstColon(t) + 1, Len(t))

\* C24 as stated: a shortcut name in any case gives its fixed triple; a
\* specification p:m with p one of the three providers in any case gives
\* provider p and model m, m being everything after the first colon, as
\* written; every other string raises ConfigurationError.
C24_ParseModelSpec ==
    op = "parse_model_spec" =>
       LET t == arg.model_spec
       IN IF Lower(t) \in DOMAIN shortcuts
          THEN res = shortcuts[Lower(t)]
          ELSE IF ExplicitForm(t)
          THEN /\ res.raised = "none"
               /\ res.provider = Lower(SubSeq(t, 1, FirstColon(t) - 1))
               /\ res.model = <<ModelPart(t)>>
          ELSE res.raised = "ConfigurationError"

\* C24, amended: as stated, except that an empty m gives no model (None,
\* the provider's default) instead of the empty model name.
C24_ParseModelSpecEmptyModelIsNone ==
    op = "parse_model_spec" =>
       LET t == arg.model_spec
       IN IF Lower(t) \in DOMAIN shortcuts
          THEN res = shortcuts[Lower(t)]
          ELSE IF ExplicitForm(t)
          THEN /\ res.raised = "none"
               /\ res.provider = Lower(SubSeq(t, 1, FirstColon(t) - 1))
               /\ res.model = IF ModelPart(t) = <<>> THEN <<>> ELSE <<ModelPart(t)>>
          ELSE res.raised = "ConfigurationError"

\* A specification with a provider in upper case and a model in mixed case
\* that holds a colon was parsed.
C24_Witness ==
    /\ op = "parse_model_spec"
    /\ res.raised = "none"
    /\ res.provider = Ollama
    /\ arg.model_spec[1] = "O"
    /\ res.model /= <<>>
    /\ Contains(<<":">>, res.model[1])
    /\ Contains(<<"Q">>, res.model[1])

\* The delimiters of highlight, bold and italic.
EmphasisDelimiters ==
    {<<"=", "=">>, <<"*", "*">>, <<"_", "_">>, <<"*">>, <<"_">>}

\* The text holds a delimiter pair: a delimiter, and the same delimiter
\* again after it on the same line.
HoldsDelimiterPair(t) ==
    \E d \in EmphasisDelimiters : \E x \in 1..Len(t) :
       DelimiterAt(t, x, d) /\ ClosingAt(t, x, d) > 0

\* The text without its delimiter characters.
Undelimited(t) == SelectSeq(t, LAMBDA c : c \notin {"=", "*", "_"})

\* C21: for every text, the result of strip_markdown_formatting holds no
\* highlight, bold or italic delimiter pair, the characters that are no
\* delimiters are kept in their order, and stripping the result again
\* changes nothing.
C21_StrippingCompleteAndIdempotent ==
    op = "strip_markdown_formatting" =>
       /\ ~HoldsDelimiterPair(res.once)
       /\ Undelimited(res.once) = Undelimited(arg.text)
       /\ res.twice = res.once

\* C30: when reading the embedded images of an existing PDF stops with an
\* error at some page, the resolver does not return the images read up to
\* there: it returns a rendering of every page, or it fails.
C30_PartialExtractionNotUsed ==
    (/\ op \in {"PDFFileHandler.extract_images", "PDFImageExtractor.get_pdf_images"}
     /\ arg.exists
     /\ arg.libs
     /\ arg.errAt > 0)
    => \/ res.raised /= "none"
       \/ /\ res.path = "rendered"
          /\ Len(res.images) = Len(arg.doc)

====
